---- MODULE Spec2Model ----
(***************************************************************************)
(* dfox: terminal database client.  Model of the Connection Registry and   *)
(* the DatabaseUI wrappers (dfox-tui/src/db), of the Transaction handles   *)
(* (dfox-core/src/db) and of the interactive session (dfox-tui/src/ui).    *)
(*                                                                         *)
(* Text is a sequence of one-character strings; messages that the program  *)
(* only stores and shows are kept as plain strings.                        *)
(***************************************************************************)
EXTENDS Integers, Sequences, FiniteSets, TLC

VARIABLES
    connections,     \* DbManager.connections: the registry slot (a Vec of clients)
    preserve_order,  \* build feature of serde_json: Map keeps insertion order (else sorted)
    db_op,           \* the DatabaseUI operation the last step ran, and what it saw
    db_calls,        \* the DbClient calls the last step made, in order
    db_result,       \* what that operation returned
                     \* (call by call: the call of the running routine that last
                     \* returned or timed out, and the calls made since it began)
    tx,              \* transaction handles: ownership state and calls made on each
    ui,              \* the DatabaseClientUI value that run_ui works on
    pc,              \* position in ui_loop: "render", "read" (event::read), "await"
                     \* (inside a DatabaseUI call), "update_tables" and "closing"
                     \* (inside the editor's handler, between its calls) or "exited"
    inflight,        \* the DatabaseUI calls begun and not yet returned or dropped,
                     \* each holding the lock of DbManager.connections or waiting for it
    host             \* outside the process: the terminal's raw mode and alternate
                     \* screen, the system clipboard, the process exit code

dbVars == <<connections, preserve_order, db_op, db_calls, db_result, ui, pc, inflight, host>>
vars == <<connections, preserve_order, db_op, db_calls, db_result, tx, ui, pc, inflight, host>>

(***************************************************************************)
(* Text helpers (Rust str methods)                                         *)
(***************************************************************************)

\* The characters the model uses, in byte order (String's Ord is bytewise).
Ascii ==
    << "\t", "\n", "\r", " ", "\"", "*", ",", "0", "1", "2", "3", "4", "5", "6",
       "7", "8", "9", ":", "@", "A", "B", "C", "E", "L", "S", "T", "X", "\\", "_",
       "a", "b", "c", "d", "e", "i", "l", "m", "n", "p", "s", "t", "u", "x",
       "{", "}" >>

CharRank(c) == CHOOSE i \in 1..Len(Ascii) : Ascii[i] = c

\* a < b for Strings: lexicographic on bytes.
StrLess(a, b) ==
    \E i \in 1..(Len(b)) :
        /\ \A j \in 1..(i - 1) : j <= Len(a) /\ a[j] = b[j]
        /\ \/ i > Len(a)
           \/ i <= Len(a) /\ CharRank(a[i]) < CharRank(b[i])

LowerCase ==
    << "a", "b", "c", "d", "e", "f", "g", "h", "i", "j", "k", "l", "m", "n", "o", "p",
       "q", "r", "s", "t", "u", "v", "w", "x", "y", "z" >>
UpperCase ==
    << "A", "B", "C", "D", "E", "F", "G", "H", "I", "J", "K", "L", "M", "N", "O", "P",
       "Q", "R", "S", "T", "U", "V", "W", "X", "Y", "Z" >>

\* char::to_uppercase on ASCII text: a lower-case letter becomes its capital, every
\* other character is kept.
UpperChar(c) ==
    IF \E i \in 1..Len(LowerCase) : LowerCase[i] = c
    THEN UpperCase[CHOOSE i \in 1..Len(LowerCase) : LowerCase[i] = c]
    ELSE c

to_uppercase(s) == [i \in 1..Len(s) |-> UpperChar(s[i])]

starts_with(s, p) == Len(s) >= Len(p) /\ SubSeq(s, 1, Len(p)) = p

is_whitespace(c) == c \in {" ", "\t", "\n", "\r"}

\* str::trim: drops leading and trailing whitespace.
trim(s) ==
    LET keep == {i \in 1..Len(s) : ~is_whitespace(s[i])}
    IN  IF keep = {} THEN <<>>
        ELSE SubSeq(s, CHOOSE i \in keep : \A j \in keep : i <= j,
                       CHOOSE i \in keep : \A j \in keep : i >= j)

\* str::split(sep): always at least one piece; n separators give n + 1 pieces.
split(s, sep) ==
    LET P == {i \in 1..Len(s) : s[i] = sep}
        n == Cardinality(P)
        pos(k) == CHOOSE p \in P : Cardinality({q \in P : q < p}) = k - 1
    IN  [k \in 1..(n + 1) |->
            SubSeq(s, IF k = 1 THEN 1 ELSE pos(k - 1) + 1,
                      IF k = n + 1 THEN Len(s) ELSE pos(k) - 1)]

RECURSIVE join(_, _)
\* [String]::join(sep)
join(pieces, sep) ==
    IF pieces = <<>> THEN <<>>
    ELSE IF Len(pieces) = 1 THEN pieces[1]
    ELSE pieces[1] \o <<sep>> \o join(Tail(pieces), sep)

DigitChars == << "0", "1", "2", "3", "4", "5", "6", "7", "8", "9" >>

RECURSIVE Digits(_)
\* usize/i64 Display for a natural number: its decimal digits
Digits(n) ==
    IF n < 10 THEN << DigitChars[n + 1] >>
    ELSE Digits(n \div 10) \o << DigitChars[(n % 10) + 1] >>

(***************************************************************************)
(* serde_json values and maps                                              *)
(***************************************************************************)

JNull == [t |-> "null"]
JStr(s) == [t |-> "str", s |-> s]
JNum(n) == [t |-> "num", n |-> n]
JBool(b) == [t |-> "bool", b |-> b]
\* A Number made from a finite f64; `s` is its shortest decimal text.
JFloat(f) == [t |-> "float", s |-> f.text]

\* i32 / i64 Display
int_to_string(n) == IF n < 0 THEN << "-" >> \o Digits(0 - n) ELSE Digits(n)

\* The k-th smallest element of a finite set of integers.
NthOf(S, k) == CHOOSE i \in S : Cardinality({j \in S : j < i}) = k - 1

\* IndexMap built by insert() of each pair in turn: a repeated key keeps the place
\* of its first insert and takes the value of its last.
index_map_collect(pairs) ==
    LET F == {i \in 1..Len(pairs) : \A j \in 1..(i - 1) : pairs[j][1] # pairs[i][1]}
        last(key) == CHOOSE i \in 1..Len(pairs) :
                        /\ pairs[i][1] = key
                        /\ \A j \in (i + 1)..Len(pairs) : pairs[j][1] # key
    IN  [k \in 1..Cardinality(F) |->
            << pairs[NthOf(F, k)][1], pairs[last(pairs[NthOf(F, k)][1])][2] >>]

\* serde_json::Map collected from (key, value) pairs, as the sequence its iteration
\* yields: insertion order with the preserve_order feature, key order without it.
serde_map_collect(pairs, preserve) ==
    LET m == index_map_collect(pairs)
        rank(i) == Cardinality({j \in 1..Len(m) : StrLess(m[j][1], m[i][1])})
    IN  IF preserve THEN m
        ELSE [k \in 1..Len(m) |-> m[CHOOSE i \in 1..Len(m) : rank(i) = k - 1]]

map_keys(m) == [i \in 1..Len(m) |-> m[i][1]]

map_has(m, key) == \E i \in 1..Len(m) : m[i][1] = key

map_get(m, key) == m[CHOOSE i \in 1..Len(m) : m[i][1] = key][2]

\* One character of a JSON string literal, escaped as serde_json writes it.
json_escape_char(c) ==
    IF c = "\"" THEN << "\\", "\"" >>
    ELSE IF c = "\\" THEN << "\\", "\\" >>
    ELSE IF c = "\n" THEN << "\\", "n" >>
    ELSE IF c = "\t" THEN << "\\", "t" >>
    ELSE IF c = "\r" THEN << "\\", "r" >>
    ELSE << c >>

RECURSIVE concat_all(_)
concat_all(pieces) ==
    IF pieces = <<>> THEN <<>> ELSE pieces[1] \o concat_all(Tail(pieces))

\* Display of a scalar serde_json::Value (compact JSON): null, true / false, a
\* number as its digits (with its sign, or its decimal text), a string quoted.
json_scalar_to_string(v) ==
    IF v.t = "null" THEN << "n", "u", "l", "l" >>
    ELSE IF v.t = "bool"
    THEN (IF v.b THEN << "t", "r", "u", "e" >> ELSE << "f", "a", "l", "s", "e" >>)
    ELSE IF v.t = "num" THEN int_to_string(v.n)
    ELSE IF v.t = "float" THEN v.s
    ELSE << "\"" >> \o concat_all([i \in 1..Len(v.s) |-> json_escape_char(v.s[i])])
         \o << "\"" >>

\* Display of a Value::Object whose members are scalars: {"k":v,...}
json_object_to_string(m) ==
    << "{" >>
    \o join([i \in 1..Len(m) |->
                json_scalar_to_string(JStr(m[i][1])) \o << ":" >>
                \o json_scalar_to_string(m[i][2])], ",")
    \o << "}" >>

(***************************************************************************)
(* Results, errors, and the backend clients (dfox-core/src/db)             *)
(***************************************************************************)

\* Option<T>
None == <<>>
Some(v) == << v >>

Ok(v) == [ok |-> TRUE, val |-> v]
Err(e) == [ok |-> FALSE, err |-> e]

\* DbError::Connection(msg)
ConnectionError(msg) == [kind |-> "Connection", msg |-> msg]
\* DbError::Sqlx(e): the driver's error for a failed statement
SqlxError == [kind |-> "Sqlx", msg |-> "driver error"]

\* ConnectionInput::new()
NewConnectionInput ==
    [username |-> <<>>, password |-> <<>>, hostname |-> <<>>, port |-> <<>>,
     current_field |-> "Username"]

\* format!("{scheme}://{}:{}@{}:{}/{}", username, password, hostname, port, database)
connection_url(scheme, input, database) ==
    scheme \o << ":", "/", "/" >> \o input.username \o << ":" >> \o input.password
    \o << "@" >> \o input.hostname \o << ":" >> \o input.port \o << "/" >> \o database

PostgresScheme == << "p", "o", "s", "t", "g", "r", "e", "s" >>
MySqlScheme == << "m", "y", "s", "q", "l" >>

\* DatabaseUI::connection_string of the two wrappers (default database of the backend)
connection_string(kind, input) ==
    IF kind = "postgres" THEN connection_url(PostgresScheme, input, PostgresScheme)
    ELSE connection_url(MySqlScheme, input, MySqlScheme)

\* <Client as Connect>::connect(url): the driver opens a pool or reports an error.
client_connect(kind, url, driver_ok) ==
    IF driver_ok THEN Ok([kind |-> kind, url |-> url])
    ELSE Err(ConnectionError("driver error"))

\* The cell decoding of SqliteClient::query: try_get::<String>, then ::<i64>,
\* then ::<f64>; a cell of any other kind (a boolean, SQL NULL) becomes Null.
sqlite_value(v) ==
    IF v.t \in {"str", "num", "float"} THEN v ELSE JNull

\* DbClient::query: each fetched row becomes a Value::Object.  A backend row is the
\* sequence of its (column name, decoded value) pairs in result order; the
\* postgres and mysql clients decode by column type, the sqlite client by trial.
client_query(client, resp, preserve) ==
    IF ~resp.ok THEN Err(SqlxError)
    ELSE Ok([i \in 1..Len(resp.rows) |->
                IF client.kind = "postgres"
                THEN serde_map_collect(index_map_collect(resp.rows[i]), preserve)
                ELSE IF client.kind = "sqlite"
                THEN serde_map_collect(
                        [c \in 1..Len(resp.rows[i]) |->
                            << resp.rows[i][c][1], sqlite_value(resp.rows[i][c][2]) >>],
                        preserve)
                ELSE serde_map_collect(resp.rows[i], preserve)])

\* DbClient::execute
client_execute(client, resp) == IF resp.ok THEN Ok(<<>>) ELSE Err(SqlxError)

\* DbClient::list_databases / list_tables
client_list(client, resp) == IF resp.ok THEN Ok(resp.names) ELSE Err(SqlxError)

\* client_describe_table that collects the rows last to first
client_describe_table_reversed(client, table_name, resp) ==
    IF ~resp.ok THEN Err(SqlxError)
    ELSE Ok([table_name |-> table_name,
             columns |-> [i \in 1..Len(resp.names) |->
                            [name |-> resp.names[Len(resp.names) + 1 - i],
                             data_type |-> "native",
                             is_nullable |-> TRUE, default |-> "none"]],
             indexes |-> <<>>])

\* DbClient::describe_table: one ColumnSchema per backend row, in backend order.
client_describe_table(client, table_name, resp) ==
    IF ~resp.ok THEN Err(SqlxError)
    ELSE Ok([table_name |-> table_name,
             columns |-> [i \in 1..Len(resp.names) |->
                            [name |-> resp.names[i], data_type |-> "native",
                             is_nullable |-> TRUE, default |-> "none"]],
             indexes |-> <<>>])

(***************************************************************************)
(* Column types and cell decoding (dfox-core/src/db/*/types.rs)            *)
(***************************************************************************)

\* The arms of postgres ColumnType::from_type_name: (pattern, variant), in order.
PostgresTypeNames ==
    << << << "I", "N", "T", "2" >>, "SmallInt" >>,
       << << "I", "N", "T", "4" >>, "Integer" >>,
       << << "I", "N", "T", "8" >>, "BigInt" >>,
       << << "N", "U", "M", "E", "R", "I", "C" >>, "Decimal" >>,
       << << "D", "E", "C", "I", "M", "A", "L" >>, "Decimal" >>,
       << << "R", "E", "A", "L" >>, "Real" >>,
       << << "F", "L", "O", "A", "T", "4" >>, "Real" >>,
       << << "D", "O", "U", "B", "L", "E", " ", "P", "R", "E", "C", "I", "S", "I", "O", "N" >>, "DoublePrecision" >>,
       << << "F", "L", "O", "A", "T", "8" >>, "DoublePrecision" >>,
       << << "S", "E", "R", "I", "A", "L" >>, "Serial" >>,
       << << "S", "E", "R", "I", "A", "L", "4" >>, "Serial" >>,
       << << "B", "I", "G", "S", "E", "R", "I", "A", "L" >>, "BigSerial" >>,
       << << "S", "E", "R", "I", "A", "L", "8" >>, "BigSerial" >>,
       << << "C", "H", "A", "R" >>, "Char" >>,
       << << "C", "H", "A", "R", "A", "C", "T", "E", "R" >>, "Char" >>,
       << << "V", "A", "R", "C", "H", "A", "R" >>, "Varchar" >>,
       << << "C", "H", "A", "R", "A", "C", "T", "E", "R", " ", "V", "A", "R", "Y", "I", "N", "G" >>, "Varchar" >>,
       << << "T", "E", "X", "T" >>, "Text" >>,
       << << "B", "Y", "T", "E", "A" >>, "Bytea" >>,
       << << "D", "A", "T", "E" >>, "Date" >>,
       << << "T", "I", "M", "E" >>, "Time" >>,
       << << "T", "I", "M", "E", " ", "W", "I", "T", "H", "O", "U", "T", " ", "T", "I", "M", "E", " ", "Z", "O", "N", "E" >>, "Time" >>,
       << << "T", "I", "M", "E", "S", "T", "A", "M", "P" >>, "Timestamp" >>,
       << << "T", "I", "M", "E", "S", "T", "A", "M", "P", " ", "W", "I", "T", "H", "O", "U", "T", " ", "T", "I", "M", "E", " ", "Z", "O", "N", "E" >>, "Timestamp" >>,
       << << "T", "I", "M", "E", "S", "T", "A", "M", "P", "T", "Z" >>, "TimestampTz" >>,
       << << "T", "I", "M", "E", "S", "T", "A", "M", "P", " ", "W", "I", "T", "H", " ", "T", "I", "M", "E", " ", "Z", "O", "N", "E" >>, "TimestampTz" >>,
       << << "I", "N", "T", "E", "R", "V", "A", "L" >>, "Interval" >>,
       << << "B", "O", "O", "L", "E", "A", "N" >>, "Boolean" >>,
       << << "B", "O", "O", "L" >>, "Boolean" >>,
       << << "U", "U", "I", "D" >>, "Uuid" >>,
       << << "J", "S", "O", "N" >>, "Json" >>,
       << << "J", "S", "O", "N", "B" >>, "Jsonb" >>,
       << << "A", "R", "R", "A", "Y" >>, "Array" >>,
       << << "I", "N", "E", "T" >>, "Inet" >>,
       << << "C", "I", "D", "R" >>, "Cidr" >>,
       << << "M", "A", "C", "A", "D", "D", "R" >>, "MacAddr" >>,
       << << "P", "O", "I", "N", "T" >>, "Point" >>,
       << << "L", "I", "N", "E" >>, "Line" >>,
       << << "C", "I", "R", "C", "L", "E" >>, "Circle" >>,
       << << "B", "O", "X" >>, "Box" >>,
       << << "M", "O", "N", "E", "Y" >>, "Money" >> >>

\* The arms of mysql ColumnType::from_type_name: (pattern, variant), in order.
MySqlTypeNames ==
    << << << "T", "I", "N", "Y", "I", "N", "T" >>, "TinyInt" >>,
       << << "S", "M", "A", "L", "L", "I", "N", "T" >>, "SmallInt" >>,
       << << "M", "E", "D", "I", "U", "M", "I", "N", "T" >>, "MediumInt" >>,
       << << "I", "N", "T" >>, "Int" >>,
       << << "I", "N", "T", "E", "G", "E", "R" >>, "Int" >>,
       << << "B", "I", "G", "I", "N", "T" >>, "BigInt" >>,
       << << "D", "E", "C", "I", "M", "A", "L" >>, "Decimal" >>,
       << << "D", "E", "C" >>, "Decimal" >>,
       << << "N", "U", "M", "E", "R", "I", "C" >>, "Decimal" >>,
       << << "F", "L", "O", "A", "T" >>, "Float" >>,
       << << "D", "O", "U", "B", "L", "E" >>, "Double" >>,
       << << "D", "O", "U", "B", "L", "E", " ", "P", "R", "E", "C", "I", "S", "I", "O", "N" >>, "Double" >>,
       << << "R", "E", "A", "L" >>, "Double" >>,
       << << "C", "H", "A", "R" >>, "Char" >>,
       << << "V", "A", "R", "C", "H", "A", "R" >>, "Varchar" >>,
       << << "T", "I", "N", "Y", "T", "E", "X", "T" >>, "TinyText" >>,
       << << "T", "E", "X", "T" >>, "Text" >>,
       << << "M", "E", "D", "I", "U", "M", "T", "E", "X", "T" >>, "MediumText" >>,
       << << "L", "O", "N", "G", "T", "E", "X", "T" >>, "LongText" >>,
       << << "D", "A", "T", "E" >>, "Date" >>,
       << << "T", "I", "M", "E" >>, "Time" >>,
       << << "Y", "E", "A", "R" >>, "Year" >>,
       << << "D", "A", "T", "E", "T", "I", "M", "E" >>, "DateTime" >>,
       << << "T", "I", "M", "E", "S", "T", "A", "M", "P" >>, "Timestamp" >>,
       << << "B", "I", "N", "A", "R", "Y" >>, "Binary" >>,
       << << "V", "A", "R", "B", "I", "N", "A", "R", "Y" >>, "Varbinary" >>,
       << << "T", "I", "N", "Y", "B", "L", "O", "B" >>, "TinyBlob" >>,
       << << "B", "L", "O", "B" >>, "Blob" >>,
       << << "M", "E", "D", "I", "U", "M", "B", "L", "O", "B" >>, "MediumBlob" >>,
       << << "L", "O", "N", "G", "B", "L", "O", "B" >>, "LongBlob" >>,
       << << "J", "S", "O", "N" >>, "Json" >>,
       << << "B", "O", "O", "L", "E", "A", "N" >>, "Boolean" >>,
       << << "B", "O", "O", "L" >>, "Boolean" >>,
       << << "E", "N", "U", "M" >>, "Enum" >>,
       << << "S", "E", "T" >>, "Set" >> >>

\* A value of the enum ColumnType
ColumnType(variant) == [variant |-> variant]

\* The variant of the first arm whose pattern equals `s`, Unknown when none does.
match_type_name(arms, s) ==
    IF \E i \in 1..Len(arms) : arms[i][1] = s
    THEN ColumnType(arms[CHOOSE i \in 1..Len(arms) :
                            /\ arms[i][1] = s
                            /\ \A j \in 1..(i - 1) : arms[j][1] # s][2])
    ELSE ColumnType("Unknown")

\* postgres ColumnType::from_type_name: matches the name as given.
postgres_from_type_name(type_name) == match_type_name(PostgresTypeNames, type_name)

\* mysql ColumnType::from_type_name: matches type_name.to_uppercase().
mysql_from_type_name(type_name) ==
    match_type_name(MySqlTypeNames, to_uppercase(type_name))

from_type_name(backend, type_name) ==
    IF backend = "postgres" THEN postgres_from_type_name(type_name)
    ELSE mysql_from_type_name(type_name)

\* Row::try_get::<T>(index): a cell is the set of Rust types the driver decodes
\* it as (empty for SQL NULL, a foreign type, or bytes that do not decode) and
\* the decoded value.
try_get(T, cell) == IF T \in cell.types THEN Ok(cell.val) ELSE Err(SqlxError)

\* {:02} and {:04} of a natural number
pad2(n) == IF n < 10 THEN << "0" >> \o Digits(n) ELSE Digits(n)
pad4(n) ==
    [i \in 1..(4 - Len(Digits(n))) |-> "0"] \o Digits(n)

\* chrono Display of NaiveDate (years 0..9999), of NaiveTime with whole seconds,
\* and of NaiveDateTime.
naive_date_to_string(d) == pad4(d.y) \o << "-" >> \o pad2(d.m) \o << "-" >> \o pad2(d.d)
naive_time_to_string(t) == pad2(t.h) \o << ":" >> \o pad2(t.mi) \o << ":" >> \o pad2(t.s)
naive_date_time_to_string(dt) ==
    naive_date_to_string(dt.date) \o << " " >> \o naive_time_to_string(dt.time)

HexDigits ==
    << "0", "1", "2", "3", "4", "5", "6", "7", "8", "9", "a", "b", "c", "d", "e", "f" >>

\* Uuid Display: the 16 bytes in lower-case hex, hyphenated 8-4-4-4-12.
uuid_to_string(bytes) ==
    concat_all([i \in 1..Len(bytes) |->
                  (IF i \in {5, 7, 9, 11} THEN << "-" >> ELSE <<>>)
                  \o << HexDigits[(bytes[i] \div 16) + 1], HexDigits[(bytes[i] % 16) + 1] >>])

Base64Alphabet ==
    << "A", "B", "C", "D", "E", "F", "G", "H", "I", "J", "K", "L", "M", "N", "O", "P",
       "Q", "R", "S", "T", "U", "V", "W", "X", "Y", "Z", "a", "b", "c", "d", "e", "f",
       "g", "h", "i", "j", "k", "l", "m", "n", "o", "p", "q", "r", "s", "t", "u", "v",
       "w", "x", "y", "z", "0", "1", "2", "3", "4", "5", "6", "7", "8", "9", "+", "/" >>

RECURSIVE base64_encode(_)
\* base64 STANDARD engine: three bytes to four characters, '=' padding.
base64_encode(bytes) ==
    LET sextet(n, k) == Base64Alphabet[((n \div (64 ^ (3 - k))) % 64) + 1]
        b(i) == IF i <= Len(bytes) THEN bytes[i] ELSE 0
        n == b(1) * 65536 + b(2) * 256 + b(3)
    IN  IF bytes = <<>> THEN <<>>
        ELSE IF Len(bytes) = 1 THEN << sextet(n, 0), sextet(n, 1), "=", "=" >>
        ELSE IF Len(bytes) = 2 THEN << sextet(n, 0), sextet(n, 1), sextet(n, 2), "=" >>
        ELSE << sextet(n, 0), sextet(n, 1), sextet(n, 2), sextet(n, 3) >>
             \o base64_encode(SubSeq(bytes, 4, Len(bytes)))

\* serde_json::Number::from_f64: None for NaN and the infinities.
from_f64(f) == IF f.finite THEN Some(JFloat(f)) ELSE None

\* The Rust type each postgres variant asks try_get for.
postgres_target(column_type) ==
    LET category == column_type.variant IN
    CASE category = "Uuid" -> "Uuid"
      [] category \in {"Timestamp", "TimestampTz"} -> "NaiveDateTime"
      [] category \in {"SmallInt", "Integer", "Serial"} -> "i32"
      [] category \in {"BigInt", "BigSerial"} -> "i64"
      [] category \in {"Real", "DoublePrecision"} -> "f64"
      [] category = "Boolean" -> "bool"
      [] category = "Date" -> "NaiveDate"
      [] category = "Time" -> "NaiveTime"
      [] category \in {"Json", "Jsonb"} -> "Value"
      [] category = "Bytea" -> "Vec<u8>"
      [] OTHER -> "String"

\* The Rust type each mysql variant asks try_get for.
mysql_target(column_type) ==
    LET category == column_type.variant IN
    CASE category \in {"DateTime", "Timestamp"} -> "NaiveDateTime"
      [] category = "Date" -> "NaiveDate"
      [] category = "Time" -> "NaiveTime"
      [] category \in {"TinyInt", "SmallInt", "MediumInt", "Int", "Year"} -> "i32"
      [] category = "BigInt" -> "i64"
      [] category \in {"Float", "Double"} -> "f64"
      [] category = "Boolean" -> "bool"
      [] category = "Json" -> "Value"
      [] category \in {"Binary", "Varbinary", "TinyBlob", "Blob", "MediumBlob",
                       "LongBlob"} -> "Vec<u8>"
      [] OTHER -> "String"

\* The arm of to_json_value for a cell asked for as Rust type T.
decode_as(T, cell) ==
    LET got == try_get(T, cell)
    IN  IF ~got.ok THEN JNull
        ELSE CASE T = "Uuid" -> JStr(uuid_to_string(got.val))
               [] T = "NaiveDateTime" -> JStr(naive_date_time_to_string(got.val))
               [] T = "NaiveDate" -> JStr(naive_date_to_string(got.val))
               [] T = "NaiveTime" -> JStr(naive_time_to_string(got.val))
               [] T \in {"i32", "i64"} -> JNum(got.val)
               [] T = "f64" ->
                    IF from_f64(got.val) # None THEN from_f64(got.val)[1] ELSE JNum(0)
               [] T = "bool" -> JBool(got.val)
               [] T = "Value" -> got.val
               [] T = "Vec<u8>" -> JStr(base64_encode(got.val))
               [] OTHER -> JStr(got.val)

\* postgres ColumnType::to_json_value
postgres_to_json_value(column_type, cell) ==
    decode_as(postgres_target(column_type), cell)

\* mysql ColumnType::to_json_value
mysql_to_json_value(column_type, cell) == decode_as(mysql_target(column_type), cell)

to_json_value(backend, column_type, cell) ==
    IF backend = "postgres" THEN postgres_to_json_value(column_type, cell)
    ELSE mysql_to_json_value(column_type, cell)

\* The match of query_with_column_order on one value: NULL for Null, the text of
\* a String, Value's Display for the rest.
value_to_cell_string(v) ==
    IF v.t = "null" THEN << "N", "U", "L", "L" >>
    ELSE IF v.t = "str" THEN v.s
    ELSE IF v.t = "num" THEN int_to_string(v.n)
    ELSE IF v.t = "float" THEN v.s
    ELSE IF v.b THEN << "t", "r", "u", "e" >>
    ELSE << "f", "a", "l", "s", "e" >>

\* DbClient::query_with_column_order.  The postgres client reads names and
\* values off the row's columns; the mysql and sqlite clients go through
\* query() and read the keys of the first row's Map.
client_query_with_column_order(client, resp, preserve) ==
    IF client.kind = "postgres"
    THEN IF ~resp.ok THEN Err(SqlxError)
         ELSE IF resp.rows = <<>> THEN Ok(<< <<>>, <<>> >>)
         ELSE Ok(<< [c \in 1..Len(resp.rows[1]) |-> resp.rows[1][c][1]],
                    [i \in 1..Len(resp.rows) |->
                        [c \in 1..Len(resp.rows[i]) |->
                            value_to_cell_string(resp.rows[i][c][2])]] >>)
    ELSE LET rows == client_query(client, resp, preserve)
         IN  IF ~rows.ok THEN rows
             ELSE IF rows.val = <<>> THEN Ok(<< <<>>, <<>> >>)
             ELSE LET column_names == map_keys(rows.val[1])
                  IN  Ok(<< column_names,
                            [i \in 1..Len(rows.val) |->
                                [c \in 1..Len(column_names) |->
                                    IF map_has(rows.val[i], column_names[c])
                                    THEN value_to_cell_string(
                                            map_get(rows.val[i], column_names[c]))
                                    ELSE << "N", "U", "L", "L" >>]] >>)

(***************************************************************************)
(* The DatabaseUI wrappers over the registry (dfox-tui/src/db)             *)
(* Each operator returns the registry after the call, the DbClient calls   *)
(* made, and the value returned.                                           *)
(***************************************************************************)

SELECT == << "S", "E", "L", "E", "C", "T" >>

Outcome(conns, calls, result) == [conns |-> conns, calls |-> calls, result |-> result]

Call(op, arg) == [op |-> op, arg |-> arg]

\* PostgresDatabaseUI::execute_sql_query, the SELECT branch after client.query
postgres_select_lines(rows) ==
    IF rows = <<>> THEN Ok(<< <<>>, "Query returned no results." >>)
    ELSE LET headers == map_keys(rows[1])
             data_rows ==
                [i \in 1..Len(rows) |->
                    join([h \in 1..Len(headers) |->
                            IF map_has(rows[i], headers[h])
                            THEN json_scalar_to_string(map_get(rows[i], headers[h]))
                            ELSE << "N", "U", "L", "L" >>], "\t")]
         IN  Ok(<< << join(headers, "\t") >> \o data_rows, "" >>)

\* MySqlDatabaseUI::execute_sql_query, the SELECT branch after client.query
mysql_select_lines(rows) ==
    Ok(<< [i \in 1..Len(rows) |-> json_object_to_string(rows[i])], "" >>)

\* DatabaseUI::execute_sql_query of the wrapper `kind`
execute_sql_query(kind, conns, query, resp, preserve) ==
    IF conns = <<>>
    THEN Outcome(conns, <<>>, Err(ConnectionError("No database connection available.")))
    ELSE LET client == Head(conns)
             query_trimmed == trim(query)
             query_upper == to_uppercase(query_trimmed)
         IN  IF starts_with(query_upper, SELECT)
             THEN LET rows == client_query(client, resp, preserve)
                  IN  Outcome(conns, << Call("query", query_trimmed) >>,
                              IF ~rows.ok THEN rows
                              ELSE IF kind = "postgres" THEN postgres_select_lines(rows.val)
                              ELSE mysql_select_lines(rows.val))
             ELSE LET done == client_execute(client, resp)
                  IN  Outcome(conns, << Call("execute", query_trimmed) >>,
                              IF ~done.ok THEN done
                              ELSE Ok(<< <<>>, "Non-SELECT query executed successfully." >>))

\* DatabaseUI::describe_table
describe_table(kind, conns, table_name, resp) ==
    IF conns = <<>>
    THEN Outcome(conns, <<>>, Err(ConnectionError("No database connection found")))
    ELSE LET schema == client_describe_table(Head(conns), table_name, resp)
         IN  Outcome(conns, << Call("describe_table", table_name) >>,
                     IF ~schema.ok THEN schema
                     ELSE Ok([i \in 1..Len(schema.val.columns) |->
                                schema.val.columns[i].name]))

\* DatabaseUI::fetch_databases
fetch_databases(kind, conns, resp) ==
    IF conns = <<>>
    THEN Outcome(conns, <<>>, Err(ConnectionError("No database connection found")))
    ELSE Outcome(conns, << Call("list_databases", <<>>) >>, client_list(Head(conns), resp))

\* DatabaseUI::fetch_tables
fetch_tables(kind, conns, resp) ==
    IF conns = <<>>
    THEN Outcome(conns, <<>>, Ok(<<>>))
    ELSE Outcome(conns, << Call("list_tables", <<>>) >>, client_list(Head(conns), resp))

\* connect_registry without connections.clear()
connect_registry_no_clear(kind, conns, url, driver_ok) ==
    LET client == client_connect(kind, url, driver_ok)
    IN  IF ~client.ok THEN Outcome(conns, << Call("connect", url) >>, client)
        ELSE Outcome(Append(conns, client.val), << Call("connect", url) >>, Ok(<<>>))

\* A connect that puts the earlier client back when the driver fails.
connect_registry_restores(kind, conns, url, driver_ok) ==
    LET client == client_connect(kind, url, driver_ok)
    IN  IF ~client.ok THEN Outcome(conns, << Call("connect", url) >>, client)
        ELSE Outcome(<< client.val >>, << Call("connect", url) >>, Ok(<<>>))

\* A connect that reports success without registering the client.
connect_registry_no_push(kind, conns, url, driver_ok) ==
    LET client == client_connect(kind, url, driver_ok)
    IN  IF ~client.ok THEN Outcome(<<>>, << Call("connect", url) >>, client)
        ELSE Outcome(<<>>, << Call("connect", url) >>, Ok(<<>>))

\* The connect path shared by both connect operations: connections.clear(), then
\* connect(url)?, then connections.push(client).
connect_registry(kind, conns, url, driver_ok) ==
    LET cleared == <<>>
        client == client_connect(kind, url, driver_ok)
    IN  IF ~client.ok THEN Outcome(cleared, << Call("connect", url) >>, client)
        ELSE Outcome(Append(cleared, client.val), << Call("connect", url) >>, Ok(<<>>))

\* DatabaseUI::connect_to_selected_db
connect_to_selected_db(kind, input, conns, db_name, driver_ok) ==
    connect_registry(kind, conns,
        connection_url(IF kind = "postgres" THEN PostgresScheme ELSE MySqlScheme,
                       input, db_name),
        driver_ok)

\* DatabaseUI::connect_to_default_db
connect_to_default_db(kind, input, conns, driver_ok) ==
    connect_registry(kind, conns, connection_string(kind, input), driver_ok)

(***************************************************************************)
(* Transaction handles (dfox-core/src/db/mod.rs, trait Transaction)        *)
(* A handle is a Box<dyn Transaction> owned by the caller: "open" while    *)
(* the caller owns it, "moved" once a call has taken it by value.          *)
(***************************************************************************)

MaxTx == 2       \* transaction handles the caller may begin
MaxTxOps == 2    \* execute_transaction calls on one handle

TxHandles == 1..MaxTx

NoTx == [state |-> "none", execs |-> 0, ended |-> 0, last |-> "none"]

\* DbClient::begin_transaction: pool.begin() gives the handle, or fails with no handle.
begin_transaction(h, driver_ok) ==
    IF driver_ok THEN [state |-> "open", execs |-> 0, ended |-> 0, last |-> "begin"]
    ELSE NoTx

\* Transaction::execute_transaction(&mut self): the handle stays with the caller.
execute_transaction(t, driver_ok) ==
    [t EXCEPT !.execs = @ + 1, !.last = IF driver_ok THEN "execute" ELSE "execute_err"]

\* commit_transaction taking &mut self: the caller keeps the handle
commit_transaction_borrowed(t, driver_ok) ==
    [t EXCEPT !.ended = @ + 1, !.last = IF driver_ok THEN "commit" ELSE "commit_err"]

\* Transaction::commit_transaction(self: Box<Self>): the handle is taken by value.
commit_transaction(t, driver_ok) ==
    [t EXCEPT !.state = "moved", !.ended = @ + 1,
              !.last = IF driver_ok THEN "commit" ELSE "commit_err"]

\* Transaction::rollback_transaction(self: Box<Self>): the handle is taken by value.
rollback_transaction(t, driver_ok) ==
    [t EXCEPT !.state = "moved", !.ended = @ + 1,
              !.last = IF driver_ok THEN "rollback" ELSE "rollback_err"]

TxBegin(h, driver_ok) ==
    /\ tx[h].state = "none"
    /\ tx' = [tx EXCEPT ![h] = begin_transaction(h, driver_ok)]
    /\ UNCHANGED dbVars

\* A method can be called only on a handle the caller still owns.
TxExecute(h, driver_ok) ==
    /\ tx[h].state = "open"
    /\ tx[h].execs < MaxTxOps
    /\ tx' = [tx EXCEPT ![h] = execute_transaction(tx[h], driver_ok)]
    /\ UNCHANGED dbVars

TxCommit(h, driver_ok) ==
    /\ tx[h].state = "open"
    /\ tx' = [tx EXCEPT ![h] = commit_transaction(tx[h], driver_ok)]
    /\ UNCHANGED dbVars

TxRollback(h, driver_ok) ==
    /\ tx[h].state = "open"
    /\ tx' = [tx EXCEPT ![h] = rollback_transaction(tx[h], driver_ok)]
    /\ UNCHANGED dbVars

(***************************************************************************)
(* Session state: DatabaseClientUI::new (dfox-tui/src/ui/components.rs)    *)
(***************************************************************************)

MAX_VISIBLE_COLUMNS == 8

\* DatabaseClientUI::new
NewDatabaseClientUI ==
    [connection_input |-> NewConnectionInput,
     current_screen |-> "DbTypeSelection",
     selected_db_type |-> 0,
     databases |-> <<>>,
     selected_database |-> 0,
     tables |-> <<>>,
     selected_table |-> 0,
     expanded_table |-> None,
     table_schemas |-> {},
     sql_editor_content |-> <<>>,
     sql_query_result |-> <<>>,
     sql_query_error |-> None,
     sql_query_success_message |-> None,
     current_focus |-> "TablesList",
     connection_error_message |-> None,
     needs_db_refresh |-> TRUE,
     needs_tables_refresh |-> TRUE,
     last_db_update |-> None,
     last_tables_update |-> None,
     tables_scroll |-> 0,
     sql_result_scroll |-> 0,
     sql_result_horizontal_scroll |-> 0,
     databases_scroll |-> 0,
     selected_result_row |-> 0,
     sql_editor_scroll |-> 0,
     sql_editor_cursor_x |-> 0,
     sql_editor_cursor_y |-> 0,
     debug_info |-> <<>>]

(***************************************************************************)
(* Inputs of the registry-level specification                              *)
(***************************************************************************)

Kinds == {"postgres", "mysql"}

FilledInput ==
    [username |-> << "u" >>, password |-> << "p" >>, hostname |-> << "l" >>,
     port |-> << "5" >>, current_field |-> "Port"]

DbInputs == {NewConnectionInput, FilledInput}

DbNames == { << "d", "b" >>, << "a", "p", "p" >> }

TableNames == { << "u", "s", "e", "r", "s" >>, << "t" >> }

\* The row of the users table in the repository's query test.
AliceRow ==
    << << << "n", "a", "m", "e" >>, JStr(<< "A", "l", "i", "c", "e" >>) >>,
       << << "e", "m", "a", "i", "l" >>,
          JStr(<< "a", "l", "i", "c", "e", "@", "e", "x", "a", "m", "p", "l", "e",
                  ".", "c", "o", "m" >>) >> >>

BobRow ==
    << << << "n", "a", "m", "e" >>, JStr(<< "B", "o", "b" >>) >>,
       << << "e", "m", "a", "i", "l" >>, JNull >> >>

\* SELECT name, email FROM users
SelectNameEmail ==
    << "S", "E", "L", "E", "C", "T", " ", "n", "a", "m", "e", ",", " ",
       "e", "m", "a", "i", "l", " ", "F", "R", "O", "M", " ", "u", "s", "e", "r", "s" >>

DbQueries ==
    { SelectNameEmail,
      << "s", "e", "l", "e", "c", "t", " ", "1" >>,
      << " ", "\n", "S", "e", "L", "e", "c", "T", " ", "*", " " >>,
      << "S", "E", "L", "E", "C" >>,
      << "X", " ", "S", "E", "L", "E", "C", "T" >>,
      << " " >>,
      << "I", "N", "S", "E", "R", "T" >> }

DbQueryResps ==
    { [ok |-> FALSE, rows |-> <<>>],
      [ok |-> TRUE, rows |-> <<>>],
      [ok |-> TRUE, rows |-> << AliceRow >>],
      [ok |-> TRUE, rows |-> << AliceRow, BobRow >>] }

DbListResps ==
    { [ok |-> FALSE, names |-> <<>>],
      [ok |-> TRUE, names |-> <<>>],
      [ok |-> TRUE, names |-> << << "i", "d" >>, << "n", "a", "m", "e" >> >>] }

(***************************************************************************)
(* Registry-level specification: the DatabaseUI operations called in any   *)
(* order on one shared DbManager, and the transaction handles.             *)
(***************************************************************************)

NoOp == [op |-> "none", wrapper |-> "none", had_client |-> FALSE, arg |-> <<>>]

\* The terminal as run_ui has set it up before ui_loop: enable_raw_mode() and
\* EnterAlternateScreen have succeeded, the process has no exit code yet.
\* Nothing has been copied to the clipboard.
TerminalSetUp ==
    [raw_mode |-> TRUE, alternate_screen |-> TRUE, clipboard |-> None,
     exit_code |-> None]

\* The state after DbManager::new, DatabaseClientUI::new and the terminal set-up
\* of run_ui, at the top of ui_loop.
Init ==
    /\ connections = <<>>
    /\ preserve_order \in BOOLEAN
    /\ db_op = NoOp
    /\ db_calls = <<>>
    /\ db_result = Ok(<<>>)
    /\ tx = [h \in TxHandles |-> NoTx]
    /\ ui = NewDatabaseClientUI
    /\ pc = "render"
    /\ inflight = <<>>
    /\ host = TerminalSetUp

\* One DatabaseUI operation: the registry, the calls and the result it leaves.
DbApply(op, kind, arg, out) ==
    /\ connections' = out.conns
    /\ db_calls' = out.calls
    /\ db_result' = out.result
    /\ db_op' = [op |-> op, wrapper |-> kind, had_client |-> connections # <<>>,
                 arg |-> arg]
    /\ UNCHANGED <<preserve_order, inflight, tx, ui, pc, host>>

DbConnectDefault(kind, input, driver_ok) ==
    DbApply("connect_to_default_db", kind, <<>>,
            connect_to_default_db(kind, input, connections, driver_ok))

DbConnectSelected(kind, input, db_name, driver_ok) ==
    DbApply("connect_to_selected_db", kind, db_name,
            connect_to_selected_db(kind, input, connections, db_name, driver_ok))

DbExecuteSqlQuery(kind, query, resp) ==
    DbApply("execute_sql_query", kind, query,
            execute_sql_query(kind, connections, query, resp, preserve_order))

DbDescribeTable(kind, table_name, resp) ==
    DbApply("describe_table", kind, table_name,
            describe_table(kind, connections, table_name, resp))

DbFetchDatabases(kind, resp) ==
    DbApply("fetch_databases", kind, <<>>, fetch_databases(kind, connections, resp))

DbFetchTables(kind, resp) ==
    DbApply("fetch_tables", kind, <<>>, fetch_tables(kind, connections, resp))

NextDb ==
    \/ \E k \in Kinds, i \in DbInputs, b \in BOOLEAN : DbConnectDefault(k, i, b)
    \/ \E k \in Kinds, i \in DbInputs, n \in DbNames, b \in BOOLEAN :
            DbConnectSelected(k, i, n, b)
    \/ \E k \in Kinds, q \in DbQueries, r \in DbQueryResps : DbExecuteSqlQuery(k, q, r)
    \/ \E k \in Kinds, n \in TableNames, r \in DbListResps : DbDescribeTable(k, n, r)
    \/ \E k \in Kinds, r \in DbListResps : DbFetchDatabases(k, r)
    \/ \E k \in Kinds, r \in DbListResps : DbFetchTables(k, r)

SpecDb == Init /\ [][NextDb]_vars

NextTx ==
    \/ \E h \in TxHandles, b \in BOOLEAN : TxBegin(h, b)
    \/ \E h \in TxHandles, b \in BOOLEAN : TxExecute(h, b)
    \/ \E h \in TxHandles, b \in BOOLEAN : TxCommit(h, b)
    \/ \E h \in TxHandles, b \in BOOLEAN : TxRollback(h, b)

SpecTx == Init /\ [][NextTx]_vars

(***************************************************************************)
(* Client-level specification: the column-type functions and               *)
(* query_with_column_order applied to driver rows (dfox-core/src/db).      *)
(***************************************************************************)

Backends == {"postgres", "mysql"}
ClientKinds == {"postgres", "mysql", "sqlite"}

LowerChar(c) ==
    IF \E i \in 1..Len(UpperCase) : UpperCase[i] = c
    THEN LowerCase[CHOOSE i \in 1..Len(UpperCase) : UpperCase[i] = c]
    ELSE c

\* A name in lower case, and with only its first letter a capital.
lower_case_of(s) == [i \in 1..Len(s) |-> LowerChar(s[i])]
capitalised(s) == [i \in 1..Len(s) |-> IF i = 1 THEN s[i] ELSE LowerChar(s[i])]

KnownTypeNames ==
    {PostgresTypeNames[i][1] : i \in 1..Len(PostgresTypeNames)}
    \cup {MySqlTypeNames[i][1] : i \in 1..Len(MySqlTypeNames)}

\* Every pattern of either backend in three spellings, and names no arm matches.
TypeNameInputs ==
    KnownTypeNames
    \cup {lower_case_of(n) : n \in KnownTypeNames}
    \cup {capitalised(n) : n \in KnownTypeNames}
    \cup { <<>>, << "m", "o", "o", "d" >>, << "I", "N", "T", "4", " " >>,
           << "G", "E", "O", "M", "E", "T", "R", "Y" >> }

ColumnTypes(backend) ==
    {ColumnType(v) :
        v \in (IF backend = "postgres"
               THEN {PostgresTypeNames[i][2] : i \in 1..Len(PostgresTypeNames)}
               ELSE {MySqlTypeNames[i][2] : i \in 1..Len(MySqlTypeNames)})
              \cup {"Unknown"}}

Cell(types, val) == [types |-> types, val |-> val]

NotANumber == [finite |-> FALSE, text |-> << "N", "a", "N" >>]
Infinity == [finite |-> FALSE, text |-> << "i", "n", "f" >>]
OnePointFive == [finite |-> TRUE, text |-> << "1", ".", "5" >>]

I32_MAX == 2147483647

\* Cells a driver row can hold: SQL NULL or an undecodable value (no Rust type),
\* integers of 32-bit columns and of 64-bit columns (which try_get::<i32>
\* rejects), floats, booleans, text, bytes, a uuid, dates and times, and JSON
\* documents.
Cells ==
    << Cell({}, <<>>),
      Cell({"i32"}, 0), Cell({"i32"}, 0 - 7), Cell({"i32", "i64"}, 42),
      Cell({"i32"}, I32_MAX), Cell({"i64"}, I32_MAX), Cell({"i64"}, 0 - I32_MAX),
      Cell({"f64"}, OnePointFive), Cell({"f64"}, NotANumber), Cell({"f64"}, Infinity),
      Cell({"bool"}, TRUE), Cell({"bool"}, FALSE),
      Cell({"String"}, <<>>), Cell({"String"}, << "a", "b", "c" >>),
      Cell({"Vec<u8>"}, <<>>), Cell({"Vec<u8>"}, << 77 >>), Cell({"Vec<u8>"}, << 77, 97 >>),
      Cell({"Vec<u8>"}, << 77, 97, 110 >>), Cell({"Vec<u8>"}, << 255, 0, 16, 32 >>),
      Cell({"Uuid"}, << 85, 14, 132, 0, 226, 155, 65, 212, 167, 22, 68, 102, 85, 68, 0, 0 >>),
      Cell({"NaiveDate"}, [y |-> 2024, m |-> 2, d |-> 29]),
      Cell({"NaiveTime"}, [h |-> 9, mi |-> 5, s |-> 0]),
      Cell({"NaiveDateTime"},
           [date |-> [y |-> 987, m |-> 12, d |-> 1], time |-> [h |-> 23, mi |-> 59, s |-> 58]]),
      Cell({"Value"}, JNull), Cell({"Value"}, JNum(1)),
      Cell({"Value"}, JStr(<< "x" >>)) >>

\* SELECT id, name, email: three columns whose result order is not key order.
IdNameEmailRow ==
    << << << "i", "d" >>, JNum(0 - 3) >>,
       << << "n", "a", "m", "e" >>, JStr(<< "B", "o", "b" >>) >>,
       << << "e", "m", "a", "i", "l" >>, JNull >> >>

\* SELECT a.id, b.id, ...: two columns of one name.
TwoIdsRow ==
    << << << "i", "d" >>, JNum(1) >>,
       << << "i", "d" >>, JBool(TRUE) >>,
       << << "x" >>, JFloat(OnePointFive) >> >>

ColumnOrderResps ==
    DbQueryResps
    \cup { [ok |-> TRUE, rows |-> << IdNameEmailRow >>],
           [ok |-> TRUE, rows |-> << IdNameEmailRow, IdNameEmailRow >>],
           [ok |-> TRUE, rows |-> << TwoIdsRow >>] }

\* One call of a dfox-core function: what was called, on what, and its value.
CoreApply(op, backend, arg, result) ==
    /\ db_op' = [op |-> op, wrapper |-> backend, had_client |-> connections # <<>>,
                 arg |-> arg]
    /\ db_calls' = <<>>
    /\ db_result' = result
    /\ UNCHANGED <<connections, preserve_order, inflight, tx, ui, pc, host>>

FromTypeName(backend, type_name) ==
    CoreApply("from_type_name", backend, type_name, from_type_name(backend, type_name))

ToJsonValue(backend, column_type, cell) ==
    CoreApply("to_json_value", backend, << "cell", column_type, cell >>,
              to_json_value(backend, column_type, cell))

QueryWithColumnOrder(kind, resp) ==
    CoreApply("query_with_column_order", kind, << "rows", resp >>,
              client_query_with_column_order([kind |-> kind, url |-> <<>>], resp,
                                             preserve_order))

NextCore ==
    \/ \E b \in Backends, n \in TypeNameInputs : FromTypeName(b, n)
    \/ \E b \in Backends : \E c \in ColumnTypes(b), i \in 1..Len(Cells) :
            ToJsonValue(b, c, Cells[i])
    \/ \E k \in ClientKinds, r \in ColumnOrderResps : QueryWithColumnOrder(k, r)

SpecCore == Init /\ [][NextCore]_vars

(***************************************************************************)
(* The registry lock and the fetch timeout.  Every DatabaseUI method       *)
(* begins with connections.lock().await and keeps the guard until it       *)
(* returns; the render routines wrap their fetch in timeout(5 s); ui_loop  *)
(* is one task that awaits each call before it goes on.                    *)
(***************************************************************************)

\* The places where the loop awaits a DatabaseUI method: the position `at` of the
\* loop or handler at which the call is made, whether it is wrapped in timeout(),
\* and the position `resume` at which the routine goes on after it.
CallSites ==
    { [site |-> "render", op |-> "fetch_databases", timed |-> TRUE,
       at |-> "render", resume |-> "read"],
      [site |-> "render", op |-> "fetch_tables", timed |-> TRUE,
       at |-> "render", resume |-> "read"],
      [site |-> "f1", op |-> "fetch_databases", timed |-> TRUE,
       at |-> "read", resume |-> "render"],
      [site |-> "closing", op |-> "fetch_tables", timed |-> TRUE,
       at |-> "closing", resume |-> "render"],
      [site |-> "port_enter", op |-> "connect_to_default_db", timed |-> FALSE,
       at |-> "read", resume |-> "render"],
      [site |-> "database_enter", op |-> "connect_to_selected_db", timed |-> FALSE,
       at |-> "read", resume |-> "render"],
      [site |-> "table_enter", op |-> "describe_table", timed |-> FALSE,
       at |-> "read", resume |-> "render"],
      [site |-> "execute", op |-> "execute_sql_query", timed |-> FALSE,
       at |-> "read", resume |-> "update_tables"],
      [site |-> "update_tables", op |-> "fetch_tables", timed |-> FALSE,
       at |-> "update_tables", resume |-> "closing"] }

\* A render routine that awaits its fetch without timeout()
under_timeout_never(call_site) == FALSE

\* timeout(Duration::from_secs(5), call): whether the call at this site has a deadline
under_timeout(call_site) == call_site.timed

\* Mutex::lock().await: the guard is granted while no call in flight holds it.
lock_free(calls) == \A i \in 1..Len(calls) : ~calls[i].holds

\* The call the loop task is awaiting: the one begun last.
awaited(calls) == calls[Len(calls)]

\* The awaited call returns, or its future is dropped: its guard goes with it.
drop_call(calls) == SubSeq(calls, 1, Len(calls) - 1)

\* timeout() that returns Err(Elapsed) and keeps the call's future alive
timeout_elapsed_keeps_future(calls) == calls

\* timeout() returns Err(Elapsed): the future of the call is dropped
timeout_elapsed(calls) == drop_call(calls)

Elapsed == [kind |-> "Elapsed", msg |-> "deadline has elapsed"]

(***************************************************************************)
(* Session state: DatabaseClientUI (dfox-tui/src/ui/components.rs)         *)
(* Indexes and offsets are usize, counted from 0 as in the code.           *)
(***************************************************************************)

\* usize::saturating_sub
saturating_sub(a, b) == IF a >= b THEN a - b ELSE 0

Min(a, b) == IF a <= b THEN a ELSE b

DEBUG_INFO_CAP == 100

\* A buffer that, when full, throws the new message away and keeps the oldest.
add_debug_info_drops_newest(u, info) ==
    LET pushed == Append(u.debug_info, << info >>)
    IN  [u EXCEPT !.debug_info =
            IF Len(pushed) > DEBUG_INFO_CAP THEN u.debug_info ELSE pushed]

\* DatabaseClientUI::add_debug_info.  A message is one token standing for the
\* formatted text "[timestamp] info".
add_debug_info(u, info) ==
    LET pushed == Append(u.debug_info, << info >>)
    IN  [u EXCEPT !.debug_info =
            IF Len(pushed) > DEBUG_INFO_CAP THEN Tail(pushed) ELSE pushed]

\* cycle_focus that leaves the editor for the tables list, skipping the result
cycle_focus_skips_result(u) ==
    [u EXCEPT !.current_focus = IF @ = "TablesList" THEN "SqlEditor" ELSE "TablesList"]

\* DatabaseClientUI::cycle_focus
cycle_focus(u) ==
    [u EXCEPT !.current_focus =
        IF @ = "TablesList" THEN "SqlEditor"
        ELSE IF @ = "SqlEditor" THEN "QueryResult"
        ELSE "TablesList"]

\* DatabaseClientUI::move_selection_up
move_selection_up(u) ==
    IF u.selected_table > 0
    THEN LET sel == u.selected_table - 1
         IN  [u EXCEPT !.selected_table = sel,
                       !.tables_scroll = IF sel < @ THEN sel ELSE @]
    ELSE u

TABLES_VISIBLE_HEIGHT == 50

\* DatabaseClientUI::move_selection_down
move_selection_down(u) ==
    IF u.selected_table < saturating_sub(Len(u.tables), 1)
    THEN LET sel == u.selected_table + 1
         IN  [u EXCEPT !.selected_table = sel,
                       !.tables_scroll =
                            IF sel >= @ + TABLES_VISIBLE_HEIGHT
                            THEN sel - TABLES_VISIBLE_HEIGHT + 1 ELSE @]
    ELSE u

\* The editor buffer as split('\n') sees it.
editor_lines(u) == split(u.sql_editor_content, "\n")

\* DatabaseClientUI::sync_cursor_position
sync_cursor_position(u) ==
    LET lines == editor_lines(u)
        y1 == IF u.sql_editor_cursor_y >= Len(lines)
              THEN saturating_sub(Len(lines), 1) ELSE u.sql_editor_cursor_y
        in_range == y1 < Len(lines)
        x2 == IF in_range
              THEN (IF u.sql_editor_cursor_x > Len(lines[y1 + 1])
                    THEN Len(lines[y1 + 1]) ELSE u.sql_editor_cursor_x)
              ELSE 0
        y2 == IF in_range THEN y1 ELSE 0
        total == Len(u.sql_query_result)
        row == IF u.selected_result_row >= total /\ total # 0
               THEN total - 1 ELSE u.selected_result_row
        scroll1 == IF u.sql_result_scroll > row THEN row ELSE u.sql_result_scroll
        max_scroll == saturating_sub(total, 1)
        scroll2 == IF scroll1 > max_scroll THEN max_scroll ELSE scroll1
    IN  [u EXCEPT !.sql_editor_cursor_x = x2,
                  !.sql_editor_cursor_y = y2,
                  !.selected_result_row = row,
                  !.sql_result_scroll = scroll2]

\* UIHandler::handle_message_popup_input
handle_message_popup_input(u) == [u EXCEPT !.current_screen = "DbTypeSelection"]

\* A key event: KeyCode (with the character of KeyCode::Char) and the CONTROL modifier.
Key(code) == [code |-> code, c |-> "", ctrl |-> FALSE]
CharKey(c) == [code |-> "Char", c |-> c, ctrl |-> FALSE]
CtrlKey(c) == [code |-> "Char", c |-> c, ctrl |-> TRUE]

\* handle_db_type_selection_input with Down guarded by <= 2 instead of < 2
handle_db_type_selection_input_down_past_end(u, key) ==
    IF key.code = "Up"
    THEN [u EXCEPT !.selected_db_type = IF @ > 0 THEN @ - 1 ELSE @]
    ELSE IF key.code = "Down"
    THEN [u EXCEPT !.selected_db_type = IF @ <= 2 THEN @ + 1 ELSE @]
    ELSE IF key.code = "Enter"
    THEN [u EXCEPT !.current_screen =
            IF u.selected_db_type = 2 THEN "MessagePopup" ELSE "ConnectionInput"]
    ELSE u

\* UIHandler::handle_db_type_selection_input, the keys that return to the loop
handle_db_type_selection_input(u, key) ==
    IF key.code = "Up"
    THEN [u EXCEPT !.selected_db_type = IF @ > 0 THEN @ - 1 ELSE @]
    ELSE IF key.code = "Down"
    THEN [u EXCEPT !.selected_db_type = IF @ < 2 THEN @ + 1 ELSE @]
    ELSE IF key.code = "Enter"
    THEN [u EXCEPT !.current_screen =
            IF u.selected_db_type = 2 THEN "MessagePopup" ELSE "ConnectionInput"]
    ELSE u

\* The field of ConnectionInput that InputField names.
field_name(f) ==
    IF f = "Username" THEN "username"
    ELSE IF f = "Password" THEN "password"
    ELSE IF f = "Hostname" THEN "hostname"
    ELSE "port"

\* String::pop
pop(s) == IF s = <<>> THEN s ELSE SubSeq(s, 1, Len(s) - 1)

\* UIHandler::handle_input_event, every case but Enter on the Port field with no
\* error popup shown (the connect attempt).
handle_input_event(u, key) ==
    LET f == u.connection_input.current_field
    IN  IF u.connection_error_message # None
        THEN (IF key.code \in {"Enter", "Esc"}
              THEN [u EXCEPT !.connection_error_message = None] ELSE u)
        ELSE IF key.code = "Esc" THEN [u EXCEPT !.current_screen = "DbTypeSelection"]
        ELSE IF key.code = "Up"
        THEN [u EXCEPT !.connection_input.current_field =
                IF f = "Port" THEN "Hostname"
                ELSE IF f = "Hostname" THEN "Password"
                ELSE "Username"]
        ELSE IF key.code = "Down"
        THEN [u EXCEPT !.connection_input.current_field =
                IF f = "Username" THEN "Password"
                ELSE IF f = "Password" THEN "Hostname"
                ELSE "Port"]
        ELSE IF key.code = "Backspace"
        THEN [u EXCEPT !.connection_input[field_name(f)] = pop(@)]
        ELSE IF key.code = "Enter"
        THEN [u EXCEPT !.connection_input.current_field =
                IF f = "Username" THEN "Password"
                ELSE IF f = "Password" THEN "Hostname"
                ELSE "Port"]
        ELSE IF key.code = "Char"
        THEN [u EXCEPT !.connection_input[field_name(f)] = Append(@, key.c)]
        ELSE u

DB_VISIBLE_HEIGHT == 20

\* A database list on which Esc leads back to the first screen, as it does on
\* the connection form.
handle_database_selection_input_esc_back(u, key) ==
    IF key.code = "Esc" THEN [u EXCEPT !.current_screen = "DbTypeSelection"]
    ELSE IF key.code = "Up"
    THEN (IF u.selected_database > 0
          THEN LET sel == u.selected_database - 1
               IN  [u EXCEPT !.selected_database = sel,
                             !.databases_scroll = IF sel < @ THEN sel ELSE @]
          ELSE u)
    ELSE IF key.code = "Down"
    THEN (IF u.databases # <<>> /\ u.selected_database < Len(u.databases) - 1
          THEN LET sel == u.selected_database + 1
               IN  [u EXCEPT !.selected_database = sel,
                             !.databases_scroll =
                                IF sel >= @ + DB_VISIBLE_HEIGHT
                                THEN sel - DB_VISIBLE_HEIGHT + 1 ELSE @]
          ELSE u)
    ELSE u

\* UIHandler::handle_database_selection_input, Up and Down
handle_database_selection_input(u, key) ==
    IF key.code = "Up"
    THEN (IF u.selected_database > 0
          THEN LET sel == u.selected_database - 1
               IN  [u EXCEPT !.selected_database = sel,
                             !.databases_scroll = IF sel < @ THEN sel ELSE @]
          ELSE u)
    ELSE IF key.code = "Down"
    THEN (IF u.databases # <<>> /\ u.selected_database < Len(u.databases) - 1
          THEN LET sel == u.selected_database + 1
               IN  [u EXCEPT !.selected_database = sel,
                             !.databases_scroll =
                                IF sel >= @ + DB_VISIBLE_HEIGHT
                                THEN sel - DB_VISIBLE_HEIGHT + 1 ELSE @]
          ELSE u)
    ELSE u

(***************************************************************************)
(* TableView: navigation keys (handle_table_view_input)                    *)
(***************************************************************************)

RESULT_VISIBLE_HEIGHT == 20
PAGE_SIZE == 10

\* str::lines: split at '\n', without a final empty line; a line that ended in
\* "\r\n" loses its '\r', a '\r' at the very end of the text is kept
str_lines(s) ==
    LET pieces == split(s, "\n")
        kept == IF pieces[Len(pieces)] = <<>> THEN pop(pieces) ELSE pieces
    IN  [i \in 1..Len(kept) |->
            IF i < Len(pieces) /\ kept[i] # <<>> /\ kept[i][Len(kept[i])] = "\r"
            THEN pop(kept[i])
            ELSE kept[i]]

\* Left in handle_table_view_input
table_view_left(u) ==
    IF u.current_focus = "QueryResult" /\ u.sql_query_result # <<>>
    THEN (IF u.sql_result_horizontal_scroll > 0
          THEN add_debug_info(
                 [u EXCEPT !.sql_result_horizontal_scroll = saturating_sub(@, 1)],
                 "Horizontal scroll left to")
          ELSE u)
    ELSE IF u.current_focus = "SqlEditor"
    THEN sync_cursor_position(
            [u EXCEPT !.sql_editor_cursor_x = IF @ > 0 THEN @ - 1 ELSE @])
    ELSE u

\* Right in handle_table_view_input
table_view_right(u) ==
    IF u.current_focus = "QueryResult" /\ u.sql_query_result # <<>>
    THEN LET total_columns == Len(u.sql_query_result[1])
             max_scroll == IF total_columns > MAX_VISIBLE_COLUMNS
                           THEN total_columns - MAX_VISIBLE_COLUMNS ELSE 0
         IN  IF u.sql_result_horizontal_scroll < max_scroll
             THEN add_debug_info([u EXCEPT !.sql_result_horizontal_scroll = @ + 1],
                                 "Horizontal scroll right to")
             ELSE add_debug_info(u, "Already at rightmost position")
    ELSE IF u.current_focus = "SqlEditor"
    THEN LET lines == str_lines(u.sql_editor_content)
             current_line == IF u.sql_editor_cursor_y < Len(lines)
                             THEN lines[u.sql_editor_cursor_y + 1] ELSE <<>>
         IN  sync_cursor_position(
                [u EXCEPT !.sql_editor_cursor_x =
                    IF @ < Len(current_line) THEN @ + 1 ELSE @])
    ELSE u

\* Up in handle_table_view_input
table_view_up(u) ==
    IF u.current_focus = "TablesList" THEN move_selection_up(u)
    ELSE IF u.current_focus = "QueryResult"
    THEN sync_cursor_position(
            IF u.sql_query_result # <<>> /\ u.selected_result_row > 0
            THEN LET row == u.selected_result_row - 1
                 IN  [u EXCEPT !.selected_result_row = row,
                               !.sql_result_scroll = IF row < @ THEN row ELSE @]
            ELSE u)
    ELSE u

\* table_view_down with the offset set to row - visible_height
table_view_down_off_by_one(u) ==
    IF u.current_focus = "TablesList" THEN move_selection_down(u)
    ELSE IF u.current_focus = "QueryResult"
    THEN sync_cursor_position(
            IF /\ u.sql_query_result # <<>>
               /\ u.selected_result_row < saturating_sub(Len(u.sql_query_result), 1)
            THEN LET row == u.selected_result_row + 1
                 IN  [u EXCEPT !.selected_result_row = row,
                               !.sql_result_scroll =
                                    IF row >= @ + RESULT_VISIBLE_HEIGHT
                                    THEN saturating_sub(row, RESULT_VISIBLE_HEIGHT)
                                    ELSE @]
            ELSE u)
    ELSE u

\* Down in handle_table_view_input
table_view_down(u) ==
    IF u.current_focus = "TablesList" THEN move_selection_down(u)
    ELSE IF u.current_focus = "QueryResult"
    THEN sync_cursor_position(
            IF /\ u.sql_query_result # <<>>
               /\ u.selected_result_row < saturating_sub(Len(u.sql_query_result), 1)
            THEN LET row == u.selected_result_row + 1
                 IN  [u EXCEPT !.selected_result_row = row,
                               !.sql_result_scroll =
                                    IF row >= @ + RESULT_VISIBLE_HEIGHT
                                    THEN saturating_sub(row, RESULT_VISIBLE_HEIGHT - 1)
                                    ELSE @]
            ELSE u)
    ELSE u

\* PageUp in handle_table_view_input
table_view_page_up(u) ==
    IF u.current_focus = "QueryResult" /\ u.sql_query_result # <<>>
    THEN LET row == IF u.selected_result_row >= PAGE_SIZE
                    THEN u.selected_result_row - PAGE_SIZE ELSE 0
         IN  sync_cursor_position(
                [u EXCEPT !.selected_result_row = row, !.sql_result_scroll = row])
    ELSE u

\* PageDown in handle_table_view_input
table_view_page_down(u) ==
    IF u.current_focus = "QueryResult" /\ u.sql_query_result # <<>>
    THEN LET max_row == saturating_sub(Len(u.sql_query_result), 1)
             row == IF u.selected_result_row + PAGE_SIZE <= max_row
                    THEN u.selected_result_row + PAGE_SIZE ELSE max_row
         IN  sync_cursor_position(
                [u EXCEPT !.selected_result_row = row,
                          !.sql_result_scroll =
                                IF row >= @ + RESULT_VISIBLE_HEIGHT
                                THEN saturating_sub(row, RESULT_VISIBLE_HEIGHT - 1)
                                ELSE @])
    ELSE u

\* Home in handle_table_view_input
table_view_home(u) ==
    IF u.current_focus = "QueryResult" /\ u.sql_query_result # <<>>
    THEN sync_cursor_position(
            [u EXCEPT !.selected_result_row = 0, !.sql_result_scroll = 0,
                      !.sql_result_horizontal_scroll = 0])
    ELSE u

\* End in handle_table_view_input
table_view_end(u) ==
    IF u.current_focus = "QueryResult" /\ u.sql_query_result # <<>>
    THEN LET row == saturating_sub(Len(u.sql_query_result), 1)
         IN  sync_cursor_position(
                [u EXCEPT !.selected_result_row = row,
                          !.sql_result_scroll =
                                saturating_sub(row, RESULT_VISIBLE_HEIGHT - 1)])
    ELSE u

\* UIHandler::handle_table_view_input for the keys that make no database call
\* (F1 and Enter are the actions TableF1 and TableEnter).
handle_table_view_input(u, key) ==
    IF key.code = "Tab" THEN cycle_focus(u)
    ELSE IF key.code = "Up" THEN table_view_up(u)
    ELSE IF key.code = "Down" THEN table_view_down(u)
    ELSE IF key.code = "Left" THEN table_view_left(u)
    ELSE IF key.code = "Right" THEN table_view_right(u)
    ELSE IF key.code = "PageUp" THEN table_view_page_up(u)
    ELSE IF key.code = "PageDown" THEN table_view_page_down(u)
    ELSE IF key.code = "Home" THEN table_view_home(u)
    ELSE IF key.code = "End" THEN table_view_end(u)
    ELSE u

\* table_view_f1 without sql_query_result.clear()
table_view_f1_keeps_result(u) ==
    [u EXCEPT !.current_screen = "DatabaseSelection",
              !.sql_editor_content = <<>>]

\* F1 in both TableView handlers, before the database list is rendered
table_view_f1(u) ==
    [u EXCEPT !.current_screen = "DatabaseSelection",
              !.sql_editor_content = <<>>,
              !.sql_query_result = <<>>]

(***************************************************************************)
(* TableView: the SQL editor (handle_sql_editor_input)                     *)
(***************************************************************************)

\* Enter in the editor
editor_enter(u) ==
    IF u.current_focus = "SqlEditor"
    THEN sync_cursor_position(
            [u EXCEPT !.sql_editor_content = Append(@, "\n"),
                      !.sql_editor_cursor_y = @ + 1,
                      !.sql_editor_cursor_x = 0])
    ELSE u

\* A character key in the editor
editor_char(u, c) ==
    IF u.current_focus = "SqlEditor"
    THEN sync_cursor_position(
            [u EXCEPT !.sql_editor_content = Append(@, c),
                      !.sql_editor_cursor_x = @ + 1])
    ELSE u

\* A Backspace that removes the character in front of the cursor: nothing when
\* the cursor is at the start of the first line.
editor_backspace_at_cursor(u) ==
    IF u.current_focus = "SqlEditor" /\ u.sql_editor_content # <<>>
    THEN IF u.sql_editor_cursor_x = 0 /\ u.sql_editor_cursor_y = 0
         THEN u
         ELSE sync_cursor_position(
                [u EXCEPT !.sql_editor_content = pop(@),
                          !.sql_editor_cursor_x = IF @ > 0 THEN @ - 1 ELSE 0])
    ELSE u

\* Backspace in the editor
editor_backspace(u) ==
    IF u.current_focus = "SqlEditor" /\ u.sql_editor_content # <<>>
    THEN LET popped == [u EXCEPT !.sql_editor_content = pop(@)]
             lines == editor_lines(popped)
         IN  sync_cursor_position(
                IF u.sql_editor_cursor_x > 0
                THEN [popped EXCEPT !.sql_editor_cursor_x = @ - 1]
                ELSE IF u.sql_editor_cursor_y > 0
                THEN [popped EXCEPT
                        !.sql_editor_cursor_y = @ - 1,
                        !.sql_editor_cursor_x =
                            IF u.sql_editor_cursor_y - 1 < Len(lines)
                            THEN Len(lines[u.sql_editor_cursor_y]) ELSE 0]
                ELSE [popped EXCEPT !.sql_editor_cursor_x = 0,
                                    !.sql_editor_cursor_y = 0])
    ELSE u

\* Left in the editor
editor_left(u) ==
    IF u.current_focus = "SqlEditor" /\ u.sql_editor_cursor_x > 0
    THEN [u EXCEPT !.sql_editor_cursor_x = @ - 1]
    ELSE u

\* Right in the editor
editor_right(u) ==
    LET lines == editor_lines(u)
    IN  IF /\ u.current_focus = "SqlEditor"
           /\ u.sql_editor_cursor_y < Len(lines)
           /\ u.sql_editor_cursor_x < Len(lines[u.sql_editor_cursor_y + 1])
        THEN [u EXCEPT !.sql_editor_cursor_x = @ + 1]
        ELSE u

\* Up in the editor
editor_up(u) ==
    IF u.current_focus = "SqlEditor" /\ u.sql_editor_cursor_y > 0
    THEN LET lines == editor_lines(u)
             y == u.sql_editor_cursor_y - 1
         IN  [u EXCEPT !.sql_editor_cursor_y = y,
                       !.sql_editor_cursor_x =
                            IF y < Len(lines) THEN Min(@, Len(lines[y + 1])) ELSE @]
    ELSE u

\* Down in the editor
editor_down(u) ==
    LET lines == editor_lines(u)
    IN  IF /\ u.current_focus = "SqlEditor"
           /\ u.sql_editor_cursor_y < saturating_sub(Len(lines), 1)
        THEN LET y == u.sql_editor_cursor_y + 1
             IN  [u EXCEPT !.sql_editor_cursor_y = y,
                           !.sql_editor_cursor_x =
                                IF y < Len(lines) THEN Min(@, Len(lines[y + 1])) ELSE @]
        ELSE u

DebugInfoKey == << "Debug Info" >>
NumberKey == << "#" >>

\* A debug view that replaces the rows and leaves the selection where it was.
editor_f12_keeps_selection(u) ==
    IF u.debug_info # <<>>
    THEN [u EXCEPT
            !.sql_query_result =
                [i \in 1..Len(u.debug_info) |->
                    << << DebugInfoKey, u.debug_info[i] >>, << NumberKey, Digits(i) >> >>],
            !.sql_query_success_message =
                Some(<< "Debug info (", Len(u.debug_info),
                        " messages) - Press F12 again to clear" >>)]
    ELSE [u EXCEPT !.sql_query_result = <<>>,
                   !.sql_query_success_message = Some("No debug information available")]

\* F12 in the editor: the debug messages take the place of the result
editor_f12(u) ==
    IF u.debug_info # <<>>
    THEN [u EXCEPT
            !.sql_query_result =
                [i \in 1..Len(u.debug_info) |->
                    << << DebugInfoKey, u.debug_info[i] >>, << NumberKey, Digits(i) >> >>],
            !.sql_query_success_message =
                Some(<< "Debug info (", Len(u.debug_info),
                        " messages) - Press F12 again to clear" >>),
            !.selected_result_row = 0,
            !.sql_result_scroll = 0]
    ELSE [u EXCEPT !.sql_query_result = <<>>,
                   !.sql_query_success_message = Some("No debug information available")]

\* UIHandler::handle_sql_editor_input for the keys that make no database call of
\* their own, before the table view is rendered again.  The copy chords only write
\* the clipboard.
handle_sql_editor_input(u, key) ==
    IF key.code = "Tab" THEN cycle_focus(u)
    ELSE IF key.code = "Enter" THEN editor_enter(u)
    ELSE IF key.code = "Char" /\ key.ctrl /\ key.c \in {"c", "a"} THEN u
    ELSE IF key.code = "Char" THEN editor_char(u, key.c)
    ELSE IF key.code = "Backspace" THEN editor_backspace(u)
    ELSE IF key.code = "Left" THEN editor_left(u)
    ELSE IF key.code = "Right" THEN editor_right(u)
    ELSE IF key.code = "Up" THEN editor_up(u)
    ELSE IF key.code = "Down" THEN editor_down(u)
    ELSE IF key.code = "F12" THEN editor_f12(u)
    ELSE u

(***************************************************************************)
(* Execute: result ingestion (handle_sql_editor_input, F5 / Ctrl+E)        *)
(***************************************************************************)

max_rows == 1000

NULL == << "N", "U", "L", "L" >>

\* A control character below 32 other than tab and newline (of the model's alphabet).
is_stripped_control(c) == c = "\r"

\* The cleaning of one cell: control characters out, trimmed, empty becomes NULL.
clean_value(value) ==
    LET cleaned == trim(SelectSeq(value, LAMBDA c : ~is_stripped_control(c)))
    IN  IF cleaned = <<>> THEN NULL ELSE cleaned

\* The header names: the first line split at tabs, trimmed, empty names dropped.
parse_headers(first_row) ==
    LET pieces == split(first_row, "\t")
    IN  SelectSeq([i \in 1..Len(pieces) |-> trim(pieces[i])], LAMBDA h : h # <<>>)

\* One data line as the filter_map sees it: Some(row) or None.
parse_row(headers, row) ==
    LET values == split(row, "\t")
    IN  IF Len(values) >= Len(headers)
        THEN Some(index_map_collect(
                [i \in 1..Len(headers) |-> << headers[i], clean_value(values[i]) >>]))
        ELSE None

\* parse_rows without take(max_rows + 1)
parse_rows_unlimited(headers, result) ==
    LET parsed == [i \in 1..(Len(result) - 1) |-> parse_row(headers, result[i + 1])]
        kept == SelectSeq(parsed, LAMBDA o : o # None)
    IN  [i \in 1..Len(kept) |-> kept[i][1]]

\* The rows kept of a response: at most max_rows + 1 lines are looked at, the first
\* is the header, the lines that parse are kept in order.
parse_rows(headers, result) ==
    LET limited == IF Len(result) > max_rows + 1
                   THEN SubSeq(result, 1, max_rows + 1) ELSE result
        parsed == [i \in 1..(Len(limited) - 1) |-> parse_row(headers, limited[i + 1])]
        kept == SelectSeq(parsed, LAMBDA o : o # None)
    IN  [i \in 1..Len(kept) |-> kept[i][1]]

\* An ingestion that reports the truncation one line too early.
ingest_result_early_notice(u, result, success_message) ==
    IF result = <<>>
    THEN [u EXCEPT !.sql_query_result = <<>>,
                   !.sql_query_success_message = Some(success_message)]
    ELSE LET headers == parse_headers(result[1])
             u1 == add_debug_info(add_debug_info(u, "First row sample"), "Headers found")
             u2 == IF Len(result) > 1
                   THEN add_debug_info(
                          add_debug_info(
                            add_debug_info(u1, "First data values"),
                            "Sample data row"),
                          "First 20 char codes")
                   ELSE u1
             rows == parse_rows(headers, result)
             u3 == add_debug_info([u2 EXCEPT !.sql_query_result = rows],
                                  "Processed rows successfully")
             u4 == IF rows # <<>> THEN add_debug_info(u3, "IndexMap keys order") ELSE u3
         IN  [u4 EXCEPT !.sql_query_success_message =
                Some(IF Len(result) > max_rows
                     THEN "Results limited to 1000 rows for performance"
                     ELSE success_message)]

\* The Ok((result, success_message)) arm up to the success message.
ingest_result(u, result, success_message) ==
    IF result = <<>>
    THEN [u EXCEPT !.sql_query_result = <<>>,
                   !.sql_query_success_message = Some(success_message)]
    ELSE LET headers == parse_headers(result[1])
             u1 == add_debug_info(add_debug_info(u, "First row sample"), "Headers found")
             u2 == IF Len(result) > 1
                   THEN add_debug_info(
                          add_debug_info(
                            add_debug_info(u1, "First data values"),
                            "Sample data row"),
                          "First 20 char codes")
                   ELSE u1
             rows == parse_rows(headers, result)
             u3 == add_debug_info([u2 EXCEPT !.sql_query_result = rows],
                                  "Processed rows successfully")
             u4 == IF rows # <<>> THEN add_debug_info(u3, "IndexMap keys order") ELSE u3
         IN  [u4 EXCEPT !.sql_query_success_message =
                Some(IF Len(result) > max_rows + 1
                     THEN "Results limited to 1000 rows for performance"
                     ELSE success_message)]

\* An Ok branch that resets the navigation but leaves the refresh flag alone.
apply_query_result_no_refresh(u, result) ==
    IF result.ok
    THEN [ingest_result(u, result.val[1], result.val[2]) EXCEPT
            !.sql_query_error = None,
            !.selected_result_row = 0,
            !.sql_result_scroll = 0,
            !.sql_result_horizontal_scroll = 0]
    ELSE [u EXCEPT
            !.sql_query_error = Some(<< "SQL Error: ", result.err >>),
            !.sql_query_result = <<>>,
            !.selected_result_row = 0,
            !.sql_result_scroll = 0,
            !.sql_result_horizontal_scroll = 0]

\* An Err branch that records the message but keeps the earlier result.
apply_query_result_keeps_result(u, result) ==
    IF result.ok
    THEN [ingest_result(u, result.val[1], result.val[2]) EXCEPT
            !.sql_query_error = None,
            !.needs_tables_refresh = TRUE,
            !.selected_result_row = 0,
            !.sql_result_scroll = 0,
            !.sql_result_horizontal_scroll = 0]
    ELSE [u EXCEPT
            !.sql_query_error = Some(<< "SQL Error: ", result.err >>),
            !.selected_result_row = 0,
            !.sql_result_scroll = 0,
            !.sql_result_horizontal_scroll = 0]

\* The match on the result of execute_sql_query.
apply_query_result(u, result) ==
    IF result.ok
    THEN [ingest_result(u, result.val[1], result.val[2]) EXCEPT
            !.sql_query_error = None,
            !.needs_tables_refresh = TRUE,
            !.selected_result_row = 0,
            !.sql_result_scroll = 0,
            !.sql_result_horizontal_scroll = 0]
    ELSE [u EXCEPT
            !.sql_query_error = Some(<< "SQL Error: ", result.err >>),
            !.sql_query_result = <<>>,
            !.selected_result_row = 0,
            !.sql_result_scroll = 0,
            !.sql_result_horizontal_scroll = 0]

\* The wrapper that selected_db_type picks.
wrapper_kind(u) ==
    IF u.selected_db_type = 0 THEN "postgres"
    ELSE IF u.selected_db_type = 1 THEN "mysql"
    ELSE "none"

\* F5 / Ctrl+E up to the table refresh: the query runs if the buffer is not empty.
\* Gives the session state, the client calls made and the wrapper's result.
editor_execute(u, conns, resp, preserve) ==
    IF u.sql_editor_content = <<>>
    THEN [ui |-> u, calls |-> <<>>, result |-> Ok(<< <<>>, "" >>), ran |-> FALSE]
    ELSE LET out == IF wrapper_kind(u) = "none"
                    THEN Outcome(conns, <<>>,
                                 Err(ConnectionError("Unsupported database type")))
                    ELSE execute_sql_query(wrapper_kind(u), conns,
                                           u.sql_editor_content, resp, preserve)
         IN  [ui |-> apply_query_result([u EXCEPT !.sql_query_error = None], out.result),
              calls |-> out.calls, result |-> out.result, ran |-> TRUE]

\* One line of the clipboard text: the row's value under each header, or NULL.
copy_line(headers, row) ==
    join([h \in 1..Len(headers) |->
            IF map_has(row, headers[h]) THEN map_get(row, headers[h]) ELSE NULL], "\t")
    \o << "\n" >>

\* Ctrl+C and Ctrl+A in handle_sql_editor_input: the text handed to
\* Clipboard::set_text, or None when the chord copies nothing.
editor_copy(u, key) ==
    IF key.code = "Char" /\ key.ctrl /\ key.c \in {"c", "a"}
       /\ u.current_focus = "QueryResult" /\ u.sql_query_result # <<>>
    THEN LET headers == map_keys(u.sql_query_result[1])
             header_line == join(headers, "\t") \o << "\n" >>
             rows == IF key.c = "a" THEN u.sql_query_result
                     ELSE IF u.selected_result_row < Len(u.sql_query_result)
                     THEN << u.sql_query_result[u.selected_result_row + 1] >>
                     ELSE <<>>
         IN  Some(header_line
                  \o concat_all([i \in 1..Len(rows) |-> copy_line(headers, rows[i])]))
    ELSE None

(***************************************************************************)
(* Rendering that refreshes state (dfox-tui/src/ui/screens.rs)             *)
(* A fetch environment is what the backend answers to a list call and      *)
(* whether the 5 second timeout fires first; when it does, the fetch is     *)
(* dropped and the render's result is Err(Elapsed).                        *)
(***************************************************************************)

FetchEnv(resp, timed_out) == [resp |-> resp, timed_out |-> timed_out]

\* Instant::now()
Now == "now"

\* A rendering that asks the backend nothing.
NoFetch(u) == [ui |-> u, calls |-> <<>>, op |-> "none", result |-> Ok(<<>>)]

\* UIRenderer::render_database_selection_screen, the refresh before the drawing.
\* Gives the session state and the client calls made.
render_database_selection_screen(u, conns, env) ==
    IF ~u.needs_db_refresh \/ wrapper_kind(u) = "none"
    THEN NoFetch(u)
    ELSE LET kind == wrapper_kind(u)
             out == fetch_databases(kind, conns, env.resp)
             timed_out == env.timed_out /\ out.calls # <<>>
         IN  [calls |-> out.calls, op |-> "fetch_databases",
              result |-> IF timed_out THEN Err(Elapsed) ELSE out.result,
              ui |->
                IF ~timed_out /\ out.result.ok
                THEN [u EXCEPT !.databases = out.result.val,
                               !.last_db_update = Some(Now),
                               !.needs_db_refresh = FALSE]
                ELSE IF kind = "postgres" THEN u
                ELSE IF timed_out
                THEN [u EXCEPT !.databases =
                        << << "Timeout while fetching databases" >> >>]
                ELSE [u EXCEPT !.databases =
                        << << "Error fetching databases: {}" >>,
                           << out.result.err.msg >> >>]]

\* A table render that stores the fetched list but never clears its flag.
render_table_view_screen_keeps_flag(u, conns, env) ==
    IF ~u.needs_tables_refresh
    THEN NoFetch(u)
    ELSE LET out == fetch_tables(wrapper_kind(u), conns, env.resp)
         IN  [calls |-> out.calls, result |-> out.result, op |-> "fetch_tables",
              ui |-> IF out.result.ok
                     THEN [u EXCEPT !.tables = out.result.val]
                     ELSE [u EXCEPT !.tables = <<>>]]

\* UIRenderer::render_table_view_screen, the refresh before the drawing.
render_table_view_screen(u, conns, env) ==
    IF ~u.needs_tables_refresh
    THEN NoFetch(u)
    ELSE LET out == IF wrapper_kind(u) = "none" THEN Outcome(conns, <<>>, Ok(<<>>))
                    ELSE fetch_tables(wrapper_kind(u), conns, env.resp)
             timed_out == env.timed_out /\ out.calls # <<>>
         IN  [calls |-> out.calls,
              result |-> IF timed_out THEN Err(Elapsed) ELSE out.result,
              op |-> IF wrapper_kind(u) = "none" THEN "none" ELSE "fetch_tables",
              ui |->
                IF ~timed_out /\ out.result.ok
                THEN [u EXCEPT !.tables = out.result.val,
                               !.last_tables_update = Some(Now),
                               !.needs_tables_refresh = FALSE]
                ELSE [u EXCEPT !.tables = <<>>]]

\* The rendering at the top of ui_loop for the current screen.
render_current_screen(u, conns, env) ==
    IF u.current_screen = "DatabaseSelection"
    THEN render_database_selection_screen(u, conns, env)
    ELSE IF u.current_screen = "TableView"
    THEN render_table_view_screen(u, conns, env)
    ELSE NoFetch(u)

\* DatabaseUI::update_tables: fetch_tables, then the list is stored in a clone of
\* the session state that is dropped.  Gives the client calls made.
update_tables(kind, conns, env) == fetch_tables(kind, conns, env.resp).calls

\* An insert that leaves the map as it was.
schemas_insert_nothing(schemas, name, schema) == schemas

\* HashMap::insert on table_schemas, kept as a set of (table name, schema) pairs
schemas_insert(schemas, name, schema) ==
    {e \in schemas : e[1] # name} \cup { << name, schema >> }

\* Enter in handle_table_view_input: the selected table is expanded or collapsed.
table_view_enter(u, conns, resp) ==
    IF u.current_focus # "TablesList" \/ u.tables = <<>>
       \/ ~(u.selected_table < Len(u.tables))
    THEN [ui |-> u, calls |-> <<>>, result |-> Ok(<<>>), ran |-> FALSE]
    ELSE IF u.expanded_table = Some(u.selected_table)
    THEN [ui |-> [u EXCEPT !.expanded_table = None], calls |-> <<>>,
          result |-> Ok(<<>>), ran |-> FALSE]
    ELSE LET selected_table == u.tables[u.selected_table + 1]
             out == IF wrapper_kind(u) = "none"
                    THEN Outcome(conns, <<>>,
                                 Err(ConnectionError("Unsupported database type")))
                    ELSE describe_table(wrapper_kind(u), conns, selected_table, resp)
         IN  [calls |-> out.calls, result |-> out.result, ran |-> TRUE,
              ui |->
                IF out.result.ok
                THEN [u EXCEPT
                        !.table_schemas =
                            schemas_insert(@, selected_table,
                                [table_name |-> selected_table,
                                 columns |-> [i \in 1..Len(out.result.val) |->
                                                [name |-> out.result.val[i],
                                                 data_type |-> <<>>,
                                                 is_nullable |-> TRUE,
                                                 default |-> None]],
                                 indexes |-> <<>>]),
                        !.expanded_table = Some(u.selected_table)]
                ELSE u]

(***************************************************************************)
(* The interactive loop: DatabaseClientUI::ui_loop                         *)
(* One step renders the current screen, or reads one key event and runs    *)
(* the handler of the current screen to its end.                           *)
(***************************************************************************)

\* What a step records of the DatabaseUI operation it ran ("none": it ran none).
UiOp(op, arg) ==
    [op |-> op, wrapper |-> IF op = "none" THEN "none" ELSE wrapper_kind(ui),
     had_client |-> op # "none" /\ connections # <<>>, arg |-> arg]

\* The buffers on the way to one of the texts.
PrefixesOf(texts) == UNION { {SubSeq(t, 1, n) : n \in 0..Len(t)} : t \in texts }

\* The rendering at the top of the loop.
Render(env) ==
    /\ pc = "render"
    /\ LET r == render_current_screen(ui, connections, env)
       IN  /\ ui' = r.ui
           /\ db_op' = UiOp(r.op, <<>>)
           /\ db_calls' = r.calls
           /\ db_result' = r.result
    /\ pc' = "read"
    /\ UNCHANGED <<connections, preserve_order, inflight, tx, host>>

\* crossterm::terminal::disable_raw_mode on a terminal that honours it
disable_raw_mode(t) == [t EXCEPT !.raw_mode = FALSE]

\* execute!(stdout, LeaveAlternateScreen, DisableMouseCapture, Clear(All))
leave_alternate_screen(t) == [t EXCEPT !.alternate_screen = FALSE]

\* std::process::exit(code) and the return of main: no destructor runs after it.
process_exit(t, code) == [t EXCEPT !.exit_code = Some(code)]

\* impl Drop for TerminalGuard
terminal_guard_drop(t) == leave_alternate_screen(disable_raw_mode(t))

\* run_ui after ui_loop has returned `result`: terminal.clear()?, show_cursor()?
\* and execute!(LeaveAlternateScreen, ..)? (an error of the first two returns
\* early: cleanup_ok is FALSE), then _guard is dropped and main returns.
run_ui_return(t, loop_ok, cleanup_ok) ==
    LET cleaned == IF cleanup_ok THEN leave_alternate_screen(t) ELSE t
    IN  process_exit(terminal_guard_drop(cleaned),
                     IF loop_ok /\ cleanup_ok THEN 0 ELSE 1)

\* A panic in ui_loop unwinds through run_ui: only _guard's destructor runs.
run_ui_unwind(t) == process_exit(terminal_guard_drop(t), 101)

\* KeyCode::Char('q') in handle_db_type_selection_input
db_type_selection_quit(t) ==
    process_exit(leave_alternate_screen(disable_raw_mode(t)), 0)

\* database_selection_quit that only calls process::exit(0)
database_selection_quit_exit_only(t) == process_exit(t, 0)

\* KeyCode::Char('q') in handle_database_selection_input
database_selection_quit(t) ==
    process_exit(leave_alternate_screen(disable_raw_mode(t)), 0)

\* 'q' on the two screens whose handler ends the process.
Quit ==
    /\ pc = "read"
    /\ ui.current_screen \in {"DbTypeSelection", "DatabaseSelection"}
    /\ pc' = "exited"
    /\ host' = IF ui.current_screen = "DbTypeSelection"
               THEN db_type_selection_quit(host)
               ELSE database_selection_quit(host)
    /\ db_op' = NoOp /\ db_calls' = <<>> /\ db_result' = Ok(<<>>)
    /\ UNCHANGED <<connections, preserve_order, inflight, tx, ui>>

\* Esc in TableView: ui_loop returns Ok(()) and run_ui finishes.
TableEsc(cleanup_ok) ==
    /\ pc = "read"
    /\ ui.current_screen = "TableView"
    /\ pc' = "exited"
    /\ host' = run_ui_return(host, TRUE, cleanup_ok)
    /\ db_op' = NoOp /\ db_calls' = <<>> /\ db_result' = Ok(<<>>)
    /\ UNCHANGED <<connections, preserve_order, inflight, tx, ui>>

\* An io::Error of a render routine or of event::read() leaves ui_loop through
\* `?` (panicked = FALSE), or a panic unwinds out of it.
LoopFailure(panicked, cleanup_ok) ==
    /\ pc \in {"render", "read"}
    /\ pc' = "exited"
    /\ host' = IF panicked THEN run_ui_unwind(host)
               ELSE run_ui_return(host, FALSE, cleanup_ok)
    /\ db_op' = NoOp /\ db_calls' = <<>> /\ db_result' = Ok(<<>>)
    /\ UNCHANGED <<connections, preserve_order, inflight, tx, ui>>

DbTypeKey(key) ==
    /\ pc = "read"
    /\ ui.current_screen = "DbTypeSelection"
    /\ ~(key.code = "Char" /\ key.c = "q")
    /\ ui' = handle_db_type_selection_input(ui, key)
    /\ pc' = "render"
    /\ db_op' = NoOp /\ db_calls' = <<>> /\ db_result' = Ok(<<>>)
    /\ UNCHANGED <<connections, preserve_order, inflight, tx, host>>

MessagePopupKey(key) ==
    /\ pc = "read"
    /\ ui.current_screen = "MessagePopup"
    /\ ui' = handle_message_popup_input(ui)
    /\ pc' = "render"
    /\ db_op' = NoOp /\ db_calls' = <<>> /\ db_result' = Ok(<<>>)
    /\ UNCHANGED <<connections, preserve_order, inflight, tx, host>>

\* Enter on the Port field with no error popup: the connect attempt.
IsConnectKey(u, key) ==
    /\ u.connection_error_message = None
    /\ u.connection_input.current_field = "Port"
    /\ key.code = "Enter"

\* A key on the connection form; `texts` are the field values the user types.
ConnInputKey(key, texts) ==
    /\ pc = "read"
    /\ ui.current_screen = "ConnectionInput"
    /\ ~IsConnectKey(ui, key)
    /\ LET u == handle_input_event(ui, key)
       IN  /\ \A f \in {"username", "password", "hostname", "port"} :
                    u.connection_input[f] \in PrefixesOf(texts)
           /\ ui' = u
    /\ pc' = "render"
    /\ db_op' = NoOp /\ db_calls' = <<>> /\ db_result' = Ok(<<>>)
    /\ UNCHANGED <<connections, preserve_order, inflight, tx, host>>

ConnInputConnect(driver_ok) ==
    /\ pc = "read"
    /\ ui.current_screen = "ConnectionInput"
    /\ IsConnectKey(ui, Key("Enter"))
    /\ LET out == IF wrapper_kind(ui) = "none" THEN Outcome(connections, <<>>, Ok(<<>>))
                  ELSE connect_to_default_db(wrapper_kind(ui), ui.connection_input,
                                             connections, driver_ok)
       IN  /\ connections' = out.conns
           /\ db_op' = UiOp(IF wrapper_kind(ui) = "none" THEN "none"
                             ELSE "connect_to_default_db", <<>>)
           /\ db_calls' = out.calls
           /\ db_result' = out.result
           /\ ui' = IF out.result.ok
                    THEN [ui EXCEPT !.current_screen = "DatabaseSelection"] ELSE ui
    /\ pc' = "render"
    /\ UNCHANGED <<preserve_order, inflight, tx, host>>

DbSelKey(key) ==
    /\ pc = "read"
    /\ ui.current_screen = "DatabaseSelection"
    /\ key.code # "Enter" /\ ~(key.code = "Char" /\ key.c = "q")
    /\ ui' = handle_database_selection_input(ui, key)
    /\ pc' = "render"
    /\ db_op' = NoOp /\ db_calls' = <<>> /\ db_result' = Ok(<<>>)
    /\ UNCHANGED <<connections, preserve_order, inflight, tx, host>>

\* DbSelEnter without `self.needs_tables_refresh = true`
DbSelEnter_no_refresh(driver_ok) ==
    /\ pc = "read"
    /\ ui.current_screen = "DatabaseSelection"
    /\ IF ui.selected_database < Len(ui.databases)
       THEN LET db_name == ui.databases[ui.selected_database + 1]
                out == IF wrapper_kind(ui) = "none"
                       THEN Outcome(connections, <<>>, Ok(<<>>))
                       ELSE connect_to_selected_db(wrapper_kind(ui), ui.connection_input,
                                                   connections, db_name, driver_ok)
            IN  /\ connections' = out.conns
                /\ db_op' = UiOp(IF wrapper_kind(ui) = "none" THEN "none"
                                  ELSE "connect_to_selected_db", db_name)
                /\ db_calls' = out.calls
                /\ db_result' = out.result
                /\ ui' = IF out.result.ok
                         THEN [ui EXCEPT !.current_screen = "TableView"]
                         ELSE ui
       ELSE /\ db_op' = NoOp /\ db_calls' = <<>> /\ db_result' = Ok(<<>>)
            /\ UNCHANGED <<connections, ui>>
    /\ pc' = "render"
    /\ UNCHANGED <<preserve_order, inflight, tx, host>>

\* Enter on the database list: connect to the selected entry, if there is one.
DbSelEnter(driver_ok) ==
    /\ pc = "read"
    /\ ui.current_screen = "DatabaseSelection"
    /\ IF ui.selected_database < Len(ui.databases)
       THEN LET db_name == ui.databases[ui.selected_database + 1]
                out == IF wrapper_kind(ui) = "none"
                       THEN Outcome(connections, <<>>, Ok(<<>>))
                       ELSE connect_to_selected_db(wrapper_kind(ui), ui.connection_input,
                                                   connections, db_name, driver_ok)
            IN  /\ connections' = out.conns
                /\ db_op' = UiOp(IF wrapper_kind(ui) = "none" THEN "none"
                                  ELSE "connect_to_selected_db", db_name)
                /\ db_calls' = out.calls
                /\ db_result' = out.result
                /\ ui' = IF out.result.ok
                         THEN [ui EXCEPT !.needs_tables_refresh = TRUE,
                                         !.current_screen = "TableView"]
                         ELSE ui
       ELSE /\ db_op' = NoOp /\ db_calls' = <<>> /\ db_result' = Ok(<<>>)
            /\ UNCHANGED <<connections, ui>>
    /\ pc' = "render"
    /\ UNCHANGED <<preserve_order, inflight, tx, host>>

MaxDebugLog == 14   \* debug messages a session of the model may log

\* A key of handle_table_view_input other than F1 and Enter, in a session that
\* logs at most max_log debug messages.
TableKey(key, max_log) ==
    /\ pc = "read"
    /\ ui.current_screen = "TableView"
    /\ ui.current_focus # "SqlEditor"
    /\ key.code \notin {"F1", "Enter", "Esc"}
    /\ LET u == handle_table_view_input(ui, key)
       IN  /\ Len(u.debug_info) <= max_log
           /\ ui' = u
    /\ pc' = "render"
    /\ db_op' = NoOp /\ db_calls' = <<>> /\ db_result' = Ok(<<>>)
    /\ UNCHANGED <<connections, preserve_order, inflight, tx, host>>

\* F1 in TableView, whatever the focus: back to the database list, which is
\* rendered before the handler returns.
TableF1(env) ==
    /\ pc = "read"
    /\ ui.current_screen = "TableView"
    /\ LET r == render_database_selection_screen(table_view_f1(ui), connections, env)
       IN  /\ ui' = r.ui
           /\ db_op' = UiOp(r.op, <<>>)
           /\ db_calls' = r.calls
           /\ db_result' = r.result
    /\ pc' = "render"
    /\ UNCHANGED <<connections, preserve_order, inflight, tx, host>>

\* Enter in handle_table_view_input.
TableEnter(resp) ==
    /\ pc = "read"
    /\ ui.current_screen = "TableView"
    /\ ui.current_focus # "SqlEditor"
    /\ LET r == table_view_enter(ui, connections, resp)
       IN  /\ ui' = r.ui
           /\ db_op' = IF r.ran THEN UiOp("describe_table",
                                          ui.tables[ui.selected_table + 1])
                        ELSE NoOp
           /\ db_calls' = r.calls
           /\ db_result' = r.result
    /\ pc' = "render"
    /\ UNCHANGED <<connections, preserve_order, inflight, tx, host>>

\* A key of handle_sql_editor_input other than F1 and Execute; `texts` are the
\* buffers the user types.  The table view is rendered before the handler returns.
EditorKey(key, texts, env) ==
    /\ pc = "read"
    /\ ui.current_screen = "TableView"
    /\ ui.current_focus = "SqlEditor"
    /\ key.code \notin {"F1", "F5", "Esc"}
    /\ ~(key.code = "Char" /\ key.ctrl /\ key.c = "e")
    /\ LET u == handle_sql_editor_input(ui, key)
           r == render_table_view_screen(u, connections, env)
       IN  /\ u.sql_editor_content \in PrefixesOf(texts)
           /\ ui' = r.ui
           /\ db_op' = UiOp(r.op, <<>>)
           /\ db_calls' = r.calls
           /\ db_result' = r.result
    /\ host' = IF editor_copy(ui, key) = None THEN host
               ELSE [host EXCEPT !.clipboard = editor_copy(ui, key)]
    /\ pc' = "render"
    /\ UNCHANGED <<connections, preserve_order, inflight, tx>>

\* An Execute whose update_tables writes the session itself: the fetched list
\* (none on failure) replaces tables and selected_table goes back to 0.
EditorExecute_update_applied(resp, env, max_log) ==
    /\ pc = "read"
    /\ ui.current_screen = "TableView"
    /\ ui.current_focus = "SqlEditor"
    /\ LET ex == editor_execute(ui, connections, resp, preserve_order)
           fetched == fetch_tables(wrapper_kind(ui), connections, env.resp)
           written == [ex.ui EXCEPT
                         !.tables = IF fetched.result.ok THEN fetched.result.val
                                    ELSE <<>>,
                         !.selected_table = 0]
           r == render_table_view_screen(written, connections, env)
       IN  /\ Len(r.ui.debug_info) <= max_log
           /\ ui' = r.ui
           /\ db_op' = IF ex.ran THEN UiOp("execute_sql_query", ui.sql_editor_content)
                        ELSE UiOp(r.op, <<>>)
           /\ db_calls' = ex.calls \o fetched.calls \o r.calls
           /\ db_result' = IF ex.ran THEN ex.result ELSE r.result
    /\ pc' = "render"
    /\ UNCHANGED <<connections, preserve_order, inflight, tx, host>>

\* F5 or Ctrl+E in the editor: the query runs, the tables are updated, the table
\* view is rendered.  `resp` answers the statement, `env` the two list calls; the
\* session logs at most max_log debug messages.
EditorExecute(resp, env, max_log) ==
    /\ pc = "read"
    /\ ui.current_screen = "TableView"
    /\ ui.current_focus = "SqlEditor"
    /\ LET ex == editor_execute(ui, connections, resp, preserve_order)
           updated == IF wrapper_kind(ui) = "none" THEN <<>>
                      ELSE update_tables(wrapper_kind(ui), connections, env)
           r == render_table_view_screen(ex.ui, connections, env)
       IN  /\ Len(r.ui.debug_info) <= max_log
           /\ ui' = r.ui
           /\ db_op' = IF ex.ran THEN UiOp("execute_sql_query", ui.sql_editor_content)
                        ELSE UiOp(r.op, <<>>)
           /\ db_calls' = ex.calls \o updated \o r.calls
           /\ db_result' = IF ex.ran THEN ex.result ELSE r.result
    /\ pc' = "render"
    /\ UNCHANGED <<connections, preserve_order, inflight, tx, host>>

(***************************************************************************)
(* ui_loop call by call.  A render routine or a key handler runs up to the *)
(* DbClient call it awaits: the DatabaseUI method has taken the lock and   *)
(* made the call.  It goes on when the call is answered, or when the       *)
(* deadline of timeout() passes first.  Here db_calls are the DbClient     *)
(* calls made since the routine began, db_op and db_result the call of the *)
(* routine that last returned or timed out.  pc is "update_tables" at the  *)
(* table refresh that follows the statement of an Execute, "closing" at    *)
(* the render_table_view_screen that ends handle_sql_editor_input.         *)
(***************************************************************************)

\* A list call that has not been answered.
Unanswered == FetchEnv([ok |-> FALSE, names |-> <<>>], FALSE)

\* The routine does not reach the call site from the current state.
NotReached == [ok |-> FALSE, arg |-> <<>>, calls |-> <<>>, ui |-> ui, conns |-> connections]

\* The routine reaches the call site: the argument of the DatabaseUI call, the
\* DbClient calls it makes under the lock, and the session state and the
\* registry as they are while the call is awaited.
Reached(arg, calls, u, conns) ==
    [ok |-> calls # <<>>, arg |-> arg, calls |-> calls, ui |-> u, conns |-> conns]

\* What the loop does up to the call site from the current state.
call_at(call_site) ==
    IF pc # call_site.at THEN NotReached
    ELSE IF call_site.site = "render"
    THEN LET r == render_current_screen(ui, connections, Unanswered)
         IN  IF r.op = call_site.op THEN Reached(<<>>, r.calls, ui, connections)
             ELSE NotReached
    ELSE IF call_site.site = "f1"
    THEN IF ui.current_screen = "TableView"
         THEN Reached(<<>>,
                      render_database_selection_screen(table_view_f1(ui), connections,
                                                       Unanswered).calls,
                      table_view_f1(ui), connections)
         ELSE NotReached
    ELSE IF call_site.site = "closing"
    THEN Reached(<<>>, render_table_view_screen(ui, connections, Unanswered).calls,
                 ui, connections)
    ELSE IF call_site.site = "port_enter"
    THEN IF /\ ui.current_screen = "ConnectionInput"
            /\ IsConnectKey(ui, Key("Enter"))
            /\ wrapper_kind(ui) # "none"
         THEN Reached(<<>>,
                      connect_to_default_db(wrapper_kind(ui), ui.connection_input,
                                            connections, TRUE).calls,
                      ui, <<>>)
         ELSE NotReached
    ELSE IF call_site.site = "database_enter"
    THEN IF /\ ui.current_screen = "DatabaseSelection"
            /\ ui.selected_database < Len(ui.databases)
            /\ wrapper_kind(ui) # "none"
         THEN LET db_name == ui.databases[ui.selected_database + 1]
              IN  Reached(db_name,
                          connect_to_selected_db(wrapper_kind(ui), ui.connection_input,
                                                 connections, db_name, TRUE).calls,
                          ui, <<>>)
         ELSE NotReached
    ELSE IF call_site.site = "table_enter"
    THEN IF ui.current_screen = "TableView" /\ ui.current_focus # "SqlEditor"
         THEN LET t == table_view_enter(ui, connections, Unanswered.resp)
              IN  IF t.calls # <<>>
                  THEN Reached(ui.tables[ui.selected_table + 1], t.calls, ui, connections)
                  ELSE NotReached
         ELSE NotReached
    ELSE IF call_site.site = "execute"
    THEN IF ui.current_screen = "TableView" /\ ui.current_focus = "SqlEditor"
         THEN Reached(ui.sql_editor_content,
                      editor_execute(ui, connections, [ok |-> FALSE, rows |-> <<>>],
                                     preserve_order).calls,
                      [ui EXCEPT !.sql_query_error = None], connections)
         ELSE NotReached
    ELSE IF wrapper_kind(ui) # "none"
    THEN Reached(<<>>, update_tables(wrapper_kind(ui), connections, Unanswered),
                 ui, connections)
    ELSE NotReached

\* The loop reaches a DatabaseUI call and awaits it: the method takes the lock if
\* it is free, does what it does before its DbClient call (a connect empties the
\* registry) and makes the call.
CallBegin(call_site) ==
    /\ \E c \in {call_at(call_site)} :
        LET granted == lock_free(inflight)
            first == pc \in {"render", "read"}
        IN /\ c.ok
           /\ inflight' = Append(inflight,
                                 [site |-> call_site.site, op |-> call_site.op,
                                  wrapper |-> wrapper_kind(ui), arg |-> c.arg,
                                  timed |-> under_timeout(call_site),
                                  resume |-> call_site.resume,
                                  had_client |-> connections # <<>>,
                                  holds |-> granted])
           /\ ui' = c.ui
           /\ connections' = IF granted THEN c.conns ELSE connections
           /\ db_calls' = (IF first THEN <<>> ELSE db_calls)
                          \o (IF granted THEN c.calls ELSE <<>>)
           /\ db_op' = IF first THEN NoOp ELSE db_op
           /\ db_result' = IF first THEN Ok(<<>>) ELSE db_result
    /\ pc' = "await"
    /\ UNCHANGED <<preserve_order, tx, host>>

\* What the routine does with the answer to the awaited call `c`, up to the
\* position at which it goes on.
call_return(c, driver_ok, query_resp, list_resp) ==
    IF c.op = "connect_to_default_db"
    THEN LET out == connect_to_default_db(c.wrapper, ui.connection_input, connections,
                                          driver_ok)
         IN  [conns |-> out.conns, result |-> out.result,
              ui |-> IF out.result.ok
                     THEN [ui EXCEPT !.current_screen = "DatabaseSelection"] ELSE ui]
    ELSE IF c.op = "connect_to_selected_db"
    THEN LET out == connect_to_selected_db(c.wrapper, ui.connection_input, connections,
                                           c.arg, driver_ok)
         IN  [conns |-> out.conns, result |-> out.result,
              ui |-> IF out.result.ok
                     THEN [ui EXCEPT !.needs_tables_refresh = TRUE,
                                     !.current_screen = "TableView"]
                     ELSE ui]
    ELSE IF c.op = "describe_table"
    THEN LET t == table_view_enter(ui, connections, list_resp)
         IN  [conns |-> connections, result |-> t.result, ui |-> t.ui]
    ELSE IF c.op = "execute_sql_query"
    THEN LET ex == editor_execute(ui, connections, query_resp, preserve_order)
         IN  [conns |-> connections, result |-> ex.result, ui |-> ex.ui]
    ELSE IF c.site = "update_tables"
    THEN [conns |-> connections, ui |-> ui,
          result |-> fetch_tables(c.wrapper, connections, list_resp).result]
    ELSE LET env == FetchEnv(list_resp, FALSE)
             r == IF c.site = "f1"
                  THEN render_database_selection_screen(ui, connections, env)
                  ELSE IF c.site = "closing"
                  THEN render_table_view_screen(ui, connections, env)
                  ELSE render_current_screen(ui, connections, env)
         IN  [conns |-> connections, result |-> r.result, ui |-> r.ui]

\* The awaited call holds the lock and is answered: the method returns, its guard
\* is dropped, and the routine goes on.  The session logs at most max_log debug
\* messages.
CallReturn(driver_ok, query_resp, list_resp, max_log) ==
    /\ pc = "await"
    /\ inflight # <<>>
    /\ awaited(inflight).holds
    /\ \E c \in {awaited(inflight)} :
       \E out \in {call_return(c, driver_ok, query_resp, list_resp)} :
           /\ Len(out.ui.debug_info) <= max_log
           /\ connections' = out.conns
           /\ ui' = out.ui
           /\ db_result' = out.result
           /\ db_op' = [op |-> c.op, wrapper |-> c.wrapper,
                        had_client |-> c.had_client, arg |-> c.arg]
           /\ pc' = c.resume
    /\ inflight' = drop_call(inflight)
    /\ UNCHANGED <<preserve_order, db_calls, tx, host>>

\* The deadline of the awaited fetch passes before it is answered: the render
\* routine takes its Err(_) arm.
TimeoutElapsed ==
    /\ pc = "await"
    /\ inflight # <<>>
    /\ awaited(inflight).timed
    /\ LET c == awaited(inflight)
           env == FetchEnv(Unanswered.resp, TRUE)
           r == IF c.site = "f1"
                THEN render_database_selection_screen(ui, connections, env)
                ELSE IF c.site = "closing"
                THEN render_table_view_screen(ui, connections, env)
                ELSE render_current_screen(ui, connections, env)
       IN  /\ ui' = r.ui
           /\ db_op' = [op |-> c.op, wrapper |-> c.wrapper,
                        had_client |-> c.had_client, arg |-> c.arg]
           /\ pc' = c.resume
    /\ db_result' = Err(Elapsed)
    /\ inflight' = timeout_elapsed(inflight)
    /\ UNCHANGED <<connections, preserve_order, db_calls, tx, host>>

\* A key of handle_sql_editor_input other than F1 and Execute, up to the closing
\* render; `texts` are the buffers the user types.
EditorKeyTyped(key, texts) ==
    /\ pc = "read"
    /\ ui.current_screen = "TableView"
    /\ ui.current_focus = "SqlEditor"
    /\ key.code \notin {"F1", "F5", "Esc"}
    /\ ~(key.code = "Char" /\ key.ctrl /\ key.c = "e")
    /\ LET u == handle_sql_editor_input(ui, key)
       IN  /\ u.sql_editor_content \in PrefixesOf(texts)
           /\ ui' = u
    /\ host' = IF editor_copy(ui, key) = None THEN host
               ELSE [host EXCEPT !.clipboard = editor_copy(ui, key)]
    /\ pc' = "closing"
    /\ db_op' = NoOp /\ db_calls' = <<>> /\ db_result' = Ok(<<>>)
    /\ UNCHANGED <<connections, preserve_order, inflight, tx>>

\* F5 or Ctrl+E whose statement part makes no DbClient call (the editor is
\* empty), up to the table refresh.
EditorExecuteNoCall ==
    /\ pc = "read"
    /\ ui.current_screen = "TableView"
    /\ ui.current_focus = "SqlEditor"
    /\ \E ex \in {editor_execute(ui, connections, [ok |-> FALSE, rows |-> <<>>],
                                   preserve_order)} :
           /\ ex.calls = <<>>
           /\ ui' = ex.ui
           /\ db_op' = IF ex.ran THEN UiOp("execute_sql_query", ui.sql_editor_content)
                        ELSE NoOp
           /\ db_result' = ex.result
    /\ db_calls' = <<>>
    /\ pc' = "update_tables"
    /\ UNCHANGED <<connections, preserve_order, inflight, tx, host>>

\* The closing render of handle_sql_editor_input with nothing to ask the client.
ClosingRender ==
    /\ pc = "closing"
    /\ \E r \in {render_table_view_screen(ui, connections, Unanswered)} :
           /\ r.calls = <<>>
           /\ ui' = r.ui
           /\ db_op' = IF r.op = "none" THEN db_op ELSE UiOp(r.op, <<>>)
           /\ db_result' = IF r.op = "none" THEN db_result ELSE r.result
    /\ pc' = "render"
    /\ UNCHANGED <<connections, preserve_order, db_calls, inflight, tx, host>>

(***************************************************************************)
(* Sessions.  Each specification runs ui_loop from the constructed state   *)
(* with the keys a user presses and the answers a backend gives drawn from *)
(* the sets named in it.                                                   *)
(***************************************************************************)

\* The characters of a set of texts, as key events.
CharKeysOf(texts) == UNION { {CharKey(t[i]) : i \in 1..Len(t)} : t \in texts }

\* SELECT 1 AS " ", 2 AS x
BlankColumnRow ==
    << << << " " >>, JNum(1) >>, << << "x" >>, JNum(2) >> >>

AliceResp == [ok |-> TRUE, rows |-> << AliceRow >>]

\* What the backend may answer to a statement in the execution sessions.
ExecResps == DbQueryResps \cup { [ok |-> TRUE, rows |-> << BlankColumnRow >>] }

\* The statements typed in the execution sessions.
ExecTexts == { SelectNameEmail, << "I", "N", "S", "E", "R", "T" >> }

\* The answers to list_databases / list_tables in the focused sessions.
OkListEnvs == { FetchEnv([ok |-> TRUE, names |-> << << "a", "p", "p" >> >>], FALSE) }

\* The way from the first screen to the table view, with an empty connection form.
FrontSteps(envs) ==
    \/ \E env \in envs : Render(env)
    \/ \E key \in {Key("Enter"), Key("Down"), Key("Up")} : DbTypeKey(key)
    \/ MessagePopupKey(Key("Enter"))
    \/ ConnInputKey(Key("Enter"), { <<>> })
    \/ \E driver_ok \in BOOLEAN : ConnInputConnect(driver_ok)
    \/ \E driver_ok \in BOOLEAN : DbSelEnter(driver_ok)

\* Execution sessions: statements are typed and run, nothing is navigated.
NextExec ==
    \/ FrontSteps(OkListEnvs)
    \/ TableKey(Key("Tab"), MaxDebugLog)
    \/ \E key \in CharKeysOf(ExecTexts) \cup {Key("Tab")}, env \in OkListEnvs :
            EditorKey(key, ExecTexts, env)
    \/ \E resp \in ExecResps, env \in OkListEnvs : EditorExecute(resp, env, MaxDebugLog)

SpecExec == Init /\ [][NextExec]_vars

\* A backend answer of n rows with the one column id.
BigRows(n) == [i \in 1..n |-> << << << "i", "d" >>, JNum(i) >> >>]

\* Row counts around the cap of the result buffer.
BigRowCounts == {max_rows, max_rows + 1, max_rows + 2}

BigResps ==
    { [ok |-> TRUE, rows |-> BigRows(n)] : n \in BigRowCounts }
    \cup { [ok |-> FALSE, rows |-> <<>>] }

BigTexts == { << "S", "E", "L", "E", "C", "T" >> }

\* Large answers: a statement is typed and run against answers around the cap,
\* and the debug view is toggled.
NextBig ==
    \/ FrontSteps(OkListEnvs)
    \/ TableKey(Key("Tab"), MaxDebugLog)
    \/ \E key \in CharKeysOf(BigTexts) \cup {Key("Tab"), Key("F12")},
          env \in OkListEnvs :
            EditorKey(key, BigTexts, env)
    \/ \E resp \in BigResps, env \in OkListEnvs : EditorExecute(resp, env, MaxDebugLog)

SpecBig == Init /\ [][NextBig]_vars

\* Answers shorter and longer than the 20-row window.
NavRowCounts == {12, 25}

NavResps ==
    { [ok |-> TRUE, rows |-> BigRows(n)] : n \in NavRowCounts }
    \cup { [ok |-> FALSE, rows |-> <<>>] }

VerticalKeys ==
    {Key("Up"), Key("Down"), Key("PageUp"), Key("PageDown"), Key("Home"), Key("End")}

\* Row navigation: a statement is run and its rows are walked; the debug view and
\* the way back to the database list replace or clear the rows in between.
NextNav ==
    \/ FrontSteps(OkListEnvs)
    \/ \E key \in VerticalKeys \cup {Key("Tab")} : TableKey(key, MaxDebugLog)
    \/ \E env \in OkListEnvs : TableF1(env)
    \/ \E key \in CharKeysOf(BigTexts) \cup {Key("Tab"), Key("F12")},
          env \in OkListEnvs :
            EditorKey(key, BigTexts, env)
    \/ \E resp \in NavResps, env \in OkListEnvs : EditorExecute(resp, env, MaxDebugLog)

SpecNav == Init /\ [][NextNav]_vars

\* SELECT 0 AS c0, ..., 9 AS c9: more columns than the result view shows.
WideRow == [i \in 1..(MAX_VISIBLE_COLUMNS + 2) |-> << << "c", DigitChars[i] >>, JNum(i) >>]

ScrollResps ==
    { [ok |-> FALSE, rows |-> <<>>], AliceResp,
      [ok |-> TRUE, rows |-> << WideRow, WideRow >>] }

MaxScrollLog == 9   \* debug messages a sideways-scrolling session may log

\* Sideways scrolling: a statement is run, its columns are scrolled, and the debug
\* view (F12), another execution or the way back to the database list (F1) replace
\* or clear the rows in between.
NextScroll ==
    \/ FrontSteps(OkListEnvs)
    \/ \E key \in {Key("Left"), Key("Right"), Key("Home"), Key("Tab")} :
            TableKey(key, MaxScrollLog)
    \/ \E env \in OkListEnvs : TableF1(env)
    \/ \E key \in CharKeysOf(BigTexts) \cup {Key("Tab"), Key("F12")},
          env \in OkListEnvs :
            EditorKey(key, BigTexts, env)
    \/ \E resp \in ScrollResps, env \in OkListEnvs :
            EditorExecute(resp, env, MaxScrollLog)

SpecScroll == Init /\ [][NextScroll]_vars

\* Long sessions: a statement is run once or twice and Right is pressed on its
\* rightmost column again and again, each press logging one debug message, until
\* the debug buffer is full and turns over.
NextDebug ==
    \/ FrontSteps(OkListEnvs)
    \/ \E key \in {Key("Right"), Key("Tab")} : TableKey(key, DEBUG_INFO_CAP)
    \/ \E key \in CharKeysOf(BigTexts) \cup {Key("Tab")}, env \in OkListEnvs :
            EditorKey(key, BigTexts, env)
    \/ \E env \in OkListEnvs : EditorExecute(AliceResp, env, MaxScrollLog)

SpecDebug == Init /\ [][NextDebug]_vars

\* The buffers typed in the editing sessions: a word and two short lines.
EditTexts == { << "a", "b", "c" >>, << "a", "\n", "b", "\n" >> }

EditKeys(texts) ==
    (CharKeysOf(texts) \ {CharKey("\n")}) \cup {Key("Enter"), Key("Backspace")}

CursorKeys == {Key("Left"), Key("Right"), Key("Up"), Key("Down")}

\* Editing sessions: the buffer is typed, edited, run, cleared by F1 and typed
\* again, with the cursor moved in between.
NextEdit ==
    \/ FrontSteps(OkListEnvs)
    \/ \E key \in CursorKeys \cup {Key("Tab")} : TableKey(key, MaxDebugLog)
    \/ \E env \in OkListEnvs : TableF1(env)
    \/ \E key \in EditKeys(EditTexts) \cup CursorKeys \cup {Key("Tab"), CtrlKey("c")},
          env \in OkListEnvs :
            EditorKey(key, EditTexts, env)
    \/ \E resp \in {AliceResp}, env \in OkListEnvs : EditorExecute(resp, env, MaxDebugLog)

SpecEdit == Init /\ [][NextEdit]_vars

\* What the backend answers to a list call on the way through the screens: a
\* list of two names, an error, and a list that arrives after the timeout.
FrontEnvs ==
    { FetchEnv([ok |-> TRUE, names |-> << << "a", "p", "p" >>, << "d", "b" >> >>], FALSE),
      FetchEnv([ok |-> FALSE, names |-> <<>>], FALSE),
      FetchEnv([ok |-> TRUE, names |-> << << "a", "p", "p" >> >>], TRUE) }

\* The value typed into a field of the connection form.
FrontTexts == { << "u" >> }

FrontFormKeys ==
    {Key("Enter"), Key("Esc"), Key("Up"), Key("Down"), Key("Backspace"), Key("F1")}
    \cup CharKeysOf(FrontTexts)

\* Whole sessions up to the table view: the form is filled in, the connects and
\* the list calls fail or succeed, and the process is left on each exit path.
NextFront ==
    \/ \E env \in FrontEnvs : Render(env)
    \/ Quit
    \/ \E cleanup_ok \in BOOLEAN : TableEsc(cleanup_ok)
    \/ \E panicked \in BOOLEAN, cleanup_ok \in BOOLEAN : LoopFailure(panicked, cleanup_ok)
    \/ \E key \in {Key("Enter"), Key("Down"), Key("Up"), Key("Esc")} : DbTypeKey(key)
    \/ MessagePopupKey(Key("Enter"))
    \/ \E key \in FrontFormKeys : ConnInputKey(key, FrontTexts)
    \/ \E driver_ok \in BOOLEAN : ConnInputConnect(driver_ok)
    \/ \E key \in {Key("Up"), Key("Down"), Key("Esc")} : DbSelKey(key)
    \/ \E driver_ok \in BOOLEAN : DbSelEnter(driver_ok)
    \/ TableKey(Key("Tab"), MaxDebugLog)
    \/ \E env \in FrontEnvs : TableF1(env)
    \/ \E env \in FrontEnvs : EditorKey(Key("Tab"), FrontTexts, env)

SpecFront == Init /\ [][NextFront]_vars

\* What the backend answers to a list call in the table-list sessions: two
\* names, one name, an error, and a list that arrives after the timeout.
ListEnvs ==
    { FetchEnv([ok |-> TRUE, names |-> << << "u", "s", "e", "r", "s" >>, << "t" >> >>], FALSE),
      FetchEnv([ok |-> TRUE, names |-> << << "t" >> >>], FALSE),
      FetchEnv([ok |-> FALSE, names |-> <<>>], FALSE),
      FetchEnv([ok |-> TRUE, names |-> << << "u", "s", "e", "r", "s" >> >>], TRUE) }

\* Table-list sessions: the lists are fetched and fetched again, entries are
\* selected, tables are expanded and collapsed.
NextTables ==
    \/ FrontSteps(ListEnvs)
    \/ \E key \in {Key("Up"), Key("Down")} : DbSelKey(key)
    \/ \E key \in {Key("Up"), Key("Down"), Key("Tab")} : TableKey(key, MaxDebugLog)
    \/ \E env \in ListEnvs : TableF1(env)
    \/ \E resp \in DbListResps : TableEnter(resp)

SpecTables == Init /\ [][NextTables]_vars

\* What the backend answers to the statement in the sessions below.
RefetchResps == { [ok |-> FALSE, rows |-> <<>>], AliceResp }

\* Execution sessions in which the table list may fail to come back, come back
\* late or come back changed: a statement is typed and run again and again.
NextRefetch ==
    \/ FrontSteps(OkListEnvs)
    \/ TableKey(Key("Tab"), MaxScrollLog)
    \/ \E key \in CharKeysOf({SelectNameEmail}), env \in OkListEnvs :
            EditorKey(key, {SelectNameEmail}, env)
    \/ \E resp \in RefetchResps, env \in ListEnvs :
            EditorExecute(resp, env, MaxScrollLog)

SpecRefetch == Init /\ [][NextRefetch]_vars

CopyKeys == {CtrlKey("c"), CtrlKey("a")}

\* Copying sessions: a statement is run, a row of its result is selected and the
\* copy chords are pressed under each focus.
NextCopy ==
    \/ FrontSteps(OkListEnvs)
    \/ \E key \in {Key("Tab"), Key("Down")} \cup CopyKeys : TableKey(key, MaxDebugLog)
    \/ \E key \in CharKeysOf(BigTexts) \cup {Key("Tab")} \cup CopyKeys,
          env \in OkListEnvs :
            EditorKey(key, BigTexts, env)
    \/ \E env \in OkListEnvs :
            EditorExecute([ok |-> TRUE, rows |-> << AliceRow, BobRow >>], env, MaxDebugLog)

SpecCopy == Init /\ [][NextCopy]_vars

\* What the backend answers to a statement, and to a list or describe call, in
\* the call-by-call sessions.
\* The statement typed in the call-by-call sessions.
LockTexts == { << "x" >> }

LockQueryResps == { [ok |-> FALSE, rows |-> <<>>], AliceResp }
LockListResps ==
    { [ok |-> FALSE, names |-> <<>>], [ok |-> TRUE, names |-> << << "a", "p", "p" >> >>] }

\* Call-by-call sessions: the way to the table view with either backend, a
\* table expanded, a statement typed and run, the way back to the database
\* list; every call is answered, or not, and every fetch of a render routine
\* may time out.
NextLock ==
    \/ \E s \in CallSites : CallBegin(s)
    \/ \E b \in BOOLEAN, q \in LockQueryResps, l \in LockListResps :
            CallReturn(b, q, l, MaxScrollLog)
    \/ TimeoutElapsed
    \/ render_current_screen(ui, connections, Unanswered).calls = <<>>
            /\ Render(Unanswered)
    \/ \E key \in {Key("Enter"), Key("Down"), Key("Up")} : DbTypeKey(key)
    \/ MessagePopupKey(Key("Enter"))
    \/ ConnInputKey(Key("Enter"), { <<>> })
    \/ ~(ui.selected_database < Len(ui.databases)) /\ DbSelEnter(TRUE)
    \/ TableKey(Key("Tab"), MaxScrollLog)
    \/ table_view_enter(ui, connections, Unanswered.resp).calls = <<>>
            /\ TableEnter(Unanswered.resp)
    \/ render_database_selection_screen(table_view_f1(ui), connections,
                                        Unanswered).calls = <<>>
            /\ TableF1(Unanswered)
    \/ \E key \in CharKeysOf(LockTexts) \cup {Key("Tab")} : EditorKeyTyped(key, LockTexts)
    \/ EditorExecuteNoCall
    \/ ClosingRender

SpecLock == Init /\ [][NextLock]_vars

\* The timer of timeout() is driven by the runtime: a deadline that has been set
\* passes.  Nothing obliges a call to return.
SpecLockFair == SpecLock /\ WF_vars(TimeoutElapsed)

(***************************************************************************)
(* Claims                                                                  *)
(***************************************************************************)

ConnectOps == {"connect_to_default_db", "connect_to_selected_db"}
UiFacingOps == {"execute_sql_query", "describe_table", "fetch_databases", "fetch_tables"}

\* C1: the registry never holds more than one client, whatever connects ran
\* (either wrapper, either operation, succeeding or failing).
C1_AtMostOneClient == Len(connections) <= 1

\* C1 witness: a connect succeeded while an earlier client was registered.
C1_Witness ==
    /\ db_op.op \in ConnectOps
    /\ db_op.had_client
    /\ db_result.ok
    /\ Len(connections) = 1

\* C2: an operation that found the slot empty returned a no-connection error
\* and left the slot empty.
C2_EmptySlotFails ==
    (db_op.op \in UiFacingOps /\ ~db_op.had_client)
        => /\ ~db_result.ok
           /\ db_result.err.kind = "Connection"
           /\ connections = <<>>

\* C3: the result buffer never holds more than 1000 rows, however many rows the
\* backend returned.
C3_AtMostThousandRows == Len(ui.sql_query_result) <= 1000

\* C3 witness: an execution whose answer had more data lines than the cap left the
\* buffer full.
C3_Witness ==
    /\ db_op.op = "execute_sql_query"
    /\ db_result.ok
    /\ Len(db_result.val[1]) > 1001
    /\ Len(ui.sql_query_result) = 1000

\* C4: after a query execution that returned lines, the rows kept are the data
\* lines (the first max_rows of them) whose number of values equals the number of
\* headers, and each kept row has the header's keys in the header's order.
C4_RowsMatchHeader ==
    (db_op.op = "execute_sql_query" /\ db_result.ok /\ db_result.val[1] # <<>>)
        => LET lines == db_result.val[1]
               headers == parse_headers(lines[1])
               data == SubSeq(lines, 2, Min(Len(lines), max_rows + 1))
               agreeing == SelectSeq(data,
                              LAMBDA l : Len(split(l, "\t")) = Len(headers))
           IN  /\ Len(ui.sql_query_result) = Len(agreeing)
               /\ \A i \in 1..Len(ui.sql_query_result) :
                     map_keys(ui.sql_query_result[i]) = headers

\* The column count of the rows in the buffer (0 when it is empty).
total_columns_held(u) ==
    IF u.sql_query_result = <<>> THEN 0 ELSE Len(u.sql_query_result[1])

\* C6: on the table view the horizontal offset is at most
\* max(0, total_columns - 8) for the rows the buffer holds.
C6_HorizontalScrollWithinColumns ==
    ui.current_screen = "TableView" =>
        ui.sql_result_horizontal_scroll <=
            saturating_sub(total_columns_held(ui), MAX_VISIBLE_COLUMNS)

\* The cursor is on a line of the buffer and not beyond the end of that line.
CursorInBounds(u) ==
    LET lines == editor_lines(u)
    IN  /\ u.sql_editor_cursor_y <= Len(lines) - 1
        /\ u.sql_editor_cursor_x <= Len(lines[u.sql_editor_cursor_y + 1])

\* A character key, Enter or Backspace was handled with the focus on the editor.
EditStep ==
    /\ ui.current_focus = "SqlEditor"
    /\ \E key \in EditKeys(EditTexts), env \in OkListEnvs :
            EditorKey(key, EditTexts, env)

\* C7: after a character key, Enter or Backspace in the editor the cursor is
\* within the buffer: 0 <= y <= line_count - 1 and 0 <= x <= length of line y.
C7_CursorInBoundsAfterEdit == [][EditStep => CursorInBounds(ui')]_vars

\* The buffer the scenario of C8 expects.
AliceResult ==
    << << << << "n", "a", "m", "e" >>, << "A", "l", "i", "c", "e" >> >>,
          << << "e", "m", "a", "i", "l" >>,
             << "a", "l", "i", "c", "e", "@", "e", "x", "a", "m", "p", "l", "e",
                ".", "c", "o", "m" >> >> >> >>

\* A key of VerticalKeys was handled with the focus on the result.
ResultNavStep ==
    /\ ui.current_focus = "QueryResult"
    /\ \E key \in VerticalKeys : TableKey(key, MaxDebugLog)

\* C5 as claimed: after a row-navigation key in QueryResult focus the vertical
\* offset is at most max(0, total_rows - 20).
C5_ScrollWithinLastWindow ==
    [][ResultNavStep =>
         ui'.sql_result_scroll <=
            saturating_sub(Len(ui'.sql_query_result), RESULT_VISIBLE_HEIGHT)]_vars

\* C5 as amended: while the buffer holds rows, the vertical offset is at most
\* total_rows - 1 and the selected row is inside the 20-row window that starts at
\* the offset.
C5_ScrollWithinRows ==
    ui.sql_query_result # <<>> =>
        /\ ui.sql_result_scroll <= Len(ui.sql_query_result) - 1
        /\ ui.sql_result_scroll <= ui.selected_result_row
        /\ ui.selected_result_row < ui.sql_result_scroll + RESULT_VISIBLE_HEIGHT

\* C5 witness: rows were walked up by a page from below the first window, so the
\* offset lies beyond total_rows - 20.
C5_Witness ==
    /\ ui.current_focus = "QueryResult"
    /\ Len(ui.sql_query_result) > RESULT_VISIBLE_HEIGHT
    /\ ui.sql_result_scroll > Len(ui.sql_query_result) - RESULT_VISIBLE_HEIGHT
    /\ ui.sql_result_scroll = ui.selected_result_row

\* C8: running SELECT name, email FROM users on a connected session, the backend
\* answering with the one row (name = Alice, email = alice@example.com), leaves
\* exactly one row in the buffer: keys name, email in that order with those values.
C8_AliceScenario ==
    [][((\E env \in OkListEnvs : EditorExecute(AliceResp, env, MaxDebugLog))
            /\ ui.sql_editor_content = SelectNameEmail
            /\ connections # <<>>)
        => ui'.sql_query_result = AliceResult]_vars

\* C9: once commit or rollback has been called on a handle nothing more happens
\* on it, and execute_transaction happens only on a begun, unfinished handle.
C9_NoCallAfterEnd ==
    [][\A h \in TxHandles :
          /\ tx[h].ended > 0 => tx'[h] = tx[h]
          /\ tx'[h].execs > tx[h].execs => tx[h].state = "open" /\ tx[h].ended = 0
      ]_vars

\* C9 witness: a handle was committed or rolled back after an execute on it.
C9_Witness == \E h \in TxHandles : tx[h].ended = 1 /\ tx[h].execs >= 1

\* C10: one execute_sql_query on a registered client makes exactly one client
\* call: query_with_column_order for a SELECT, execute for anything else.
C10_DispatchOnce ==
    (db_op.op = "execute_sql_query" /\ db_op.had_client)
        => /\ Len(db_calls) = 1
           /\ db_calls[1].op =
                IF starts_with(to_uppercase(trim(db_op.arg)), SELECT)
                THEN "query_with_column_order" ELSE "execute"

\* C11: in ConnectionInput with the Port field focused, Enter attempts
\* connect_to_default_db; on success the screen becomes DatabaseSelection, on
\* failure the screen stays ConnectionInput, the field values are unchanged and
\* connection_error_message becomes set.
C11_ConnectOutcome ==
    [][(\E driver_ok \in BOOLEAN : ConnInputConnect(driver_ok)) =>
          /\ db_op'.op = "connect_to_default_db"
          /\ IF db_result'.ok
             THEN ui'.current_screen = "DatabaseSelection"
             ELSE /\ ui'.current_screen = "ConnectionInput"
                  /\ ui'.connection_input = ui.connection_input
                  /\ ui'.connection_error_message # None]_vars

\* C12: in DatabaseSelection, Enter on an in-range entry attempts
\* connect_to_selected_db with that name; on success the screen becomes TableView
\* with needs_tables_refresh set, so that the next rendering asks the newly
\* registered client for its tables; on failure the screen stays DatabaseSelection.
C12_SelectOutcome ==
    [][((\E driver_ok \in BOOLEAN : DbSelEnter(driver_ok))
         /\ ui.selected_database < Len(ui.databases)) =>
          /\ db_op'.op = "connect_to_selected_db"
          /\ db_op'.arg = ui.databases[ui.selected_database + 1]
          /\ IF db_result'.ok
             THEN /\ ui'.current_screen = "TableView"
                  /\ ui'.needs_tables_refresh
                  /\ pc' = "render"
                  /\ Len(connections') = 1
                  /\ \A env \in FrontEnvs :
                        render_table_view_screen(ui', connections', env).calls
                            = << Call("list_tables", <<>>) >>
             ELSE ui'.current_screen = "DatabaseSelection"]_vars

\* A database has been selected again after its tables had been fetched once.
C12_Witness ==
    /\ db_op.op = "connect_to_selected_db"
    /\ db_result.ok
    /\ ui.current_screen = "TableView"
    /\ ui.last_tables_update # None
    /\ ui.needs_tables_refresh

\* C13: the session starts in DbTypeSelection; Up and Down keep selected_db_type
\* within 0..2; Enter there moves to ConnectionInput exactly when the type is 0 or
\* 1 and to MessagePopup exactly when it is 2.
C13_DbTypeSelection ==
    /\ ui.current_screen = "DbTypeSelection"
    /\ [](ui.selected_db_type \in 0..2)
    /\ [][DbTypeKey(Key("Enter")) =>
            /\ (ui'.current_screen = "ConnectionInput" <=> ui.selected_db_type \in {0, 1})
            /\ (ui'.current_screen = "MessagePopup" <=> ui.selected_db_type = 2)]_vars

C13_Witness == ui.current_screen = "MessagePopup" /\ ui.selected_db_type = 2

\* The focus order of the table view.
FocusAfter(f) ==
    IF f = "TablesList" THEN "SqlEditor"
    ELSE IF f = "SqlEditor" THEN "QueryResult"
    ELSE "TablesList"

\* A Tab key event read in TableView, whichever widget has the focus.
TabStep ==
    \/ TableKey(Key("Tab"), MaxDebugLog)
    \/ \E env \in FrontEnvs : EditorKey(Key("Tab"), FrontTexts, env)

\* The session state without the focus and without what a table refresh writes.
OutsideFocusAndRefresh(u) ==
    [u EXCEPT !.current_focus = "TablesList", !.tables = <<>>,
              !.needs_tables_refresh = TRUE, !.last_tables_update = None]

\* C14 as stated: Tab advances the focus TablesList -> SqlEditor -> QueryResult ->
\* TablesList from any widget, three Tabs give the focus back, and Tab changes no
\* other session state.
C14_TabChangesFocusOnly ==
    [][TabStep =>
          /\ ui'.current_focus = FocusAfter(ui.current_focus)
          /\ FocusAfter(FocusAfter(FocusAfter(ui.current_focus))) = ui.current_focus
          /\ ui' = [ui EXCEPT !.current_focus = ui'.current_focus]]_vars

\* C14 amended: Tab advances the focus in that order, three Tabs give the focus
\* back, and Tab changes nothing else, except that a Tab pressed in the editor
\* while a table refresh is pending runs that refresh when the handler renders
\* the view again (tables, needs_tables_refresh, last_tables_update).
C14_TabChangesFocusAndPendingRefresh ==
    [][TabStep =>
          /\ ui'.current_focus = FocusAfter(ui.current_focus)
          /\ FocusAfter(FocusAfter(FocusAfter(ui.current_focus))) = ui.current_focus
          /\ OutsideFocusAndRefresh(ui') = OutsideFocusAndRefresh(ui)
          /\ ui' # [ui EXCEPT !.current_focus = ui'.current_focus] =>
                ui.current_focus = "SqlEditor" /\ ui.needs_tables_refresh]_vars

\* Tab has left the editor and the handler's rendering fetched the tables.
C14_Witness ==
    /\ ui.current_screen = "TableView"
    /\ ui.current_focus = "QueryResult"
    /\ pc = "render"
    /\ db_op.op = "fetch_tables"
    /\ ui.tables # <<>>

\* C15: from TableView with any focus, F1 switches to DatabaseSelection and leaves
\* the editor buffer and the result buffer empty; the registry slot is untouched.
C15_F1ClearsBuffersKeepsConnection ==
    [][(\E env \in OkListEnvs : TableF1(env)) =>
          /\ ui'.current_screen = "DatabaseSelection"
          /\ ui'.sql_editor_content = <<>>
          /\ ui'.sql_query_result = <<>>
          /\ connections' = connections
          /\ \A c \in 1..Len(db_calls') : db_calls'[c].op # "connect"]_vars

\* F1 was pressed on a result that had been scrolled sideways, with the
\* connection still registered.
C15_Witness ==
    /\ ui.current_screen = "DatabaseSelection"
    /\ ui.current_focus = "QueryResult"
    /\ ui.sql_result_horizontal_scroll > 0
    /\ ui.debug_info # <<>>
    /\ ui.sql_query_result = <<>>
    /\ connections # <<>>

\* C16: on every exit path ('q' in DbTypeSelection, 'q' in DatabaseSelection, Esc
\* in TableView, an I/O error or a panic leaving the event loop) raw mode has been
\* disabled and the alternate screen left by the time the process ends.
C16_TerminalRestoredOnExit ==
    pc = "exited" =>
        /\ host.exit_code # None
        /\ ~host.raw_mode
        /\ ~host.alternate_screen

\* The process was ended by 'q' on the database list: process::exit(0), after
\* which no destructor runs.
C16_Witness ==
    /\ pc = "exited"
    /\ ui.current_screen = "DatabaseSelection"
    /\ host.exit_code = Some(0)

\* The tab-separated line of the stored values of one result row.
StoredLine(u, i) ==
    LET row == u.sql_query_result[i]
    IN  join([c \in 1..Len(row) |-> row[c][2]], "\t") \o << "\n" >>

\* The tab-separated header line of the result.
StoredHeaderLine(u) ==
    join([c \in 1..Len(u.sql_query_result[1]) |-> u.sql_query_result[1][c][1]], "\t")
    \o << "\n" >>

\* A copy chord read in TableView, whichever handler receives it.
CopyStep(c) ==
    \/ TableKey(CtrlKey(c), MaxDebugLog)
    \/ \E env \in OkListEnvs : EditorKey(CtrlKey(c), BigTexts, env)

\* C17: in TableView with QueryResult focus and a non-empty result, Ctrl+C puts the
\* header line and the selected row on the clipboard and Ctrl+A the header line
\* and every row, as tab-separated lines of the stored (untruncated) values.
C17_CopyChords ==
    [][\A c \in {"c", "a"} :
         (/\ CopyStep(c)
          /\ ui.current_screen = "TableView"
          /\ ui.current_focus = "QueryResult"
          /\ ui.sql_query_result # <<>>) =>
            host'.clipboard =
                Some(StoredHeaderLine(ui)
                     \o IF c = "c" THEN StoredLine(ui, ui.selected_result_row + 1)
                        ELSE concat_all([i \in 1..Len(ui.sql_query_result) |->
                                            StoredLine(ui, i)]))]_vars

\* The rows the debug view shows: one per debug message, numbered from 1.
DebugRows(u) ==
    [i \in 1..Len(u.debug_info) |->
        << << DebugInfoKey, u.debug_info[i] >>, << NumberKey, Digits(i) >> >>]

\* The result pane shows the debug messages.
InDebugView(u) == u.debug_info # <<>> /\ u.sql_query_result = DebugRows(u)

\* F12 read in the editor.
F12Step == \E env \in OkListEnvs : EditorKey(Key("F12"), BigTexts, env)

\* C18: F12 toggles the debug view of the result pane: pressed outside the debug
\* view it replaces the pane content with the debug messages, pressed again while
\* the debug view is shown it leaves the debug view.
C18_F12Toggles ==
    [][F12Step =>
          IF InDebugView(ui)
          THEN ~InDebugView(ui')
          ELSE ui'.sql_query_result = DebugRows(ui)]_vars

Screens ==
    {"DbTypeSelection", "MessagePopup", "ConnectionInput", "DatabaseSelection", "TableView"}

\* The session state holds an error message to display: the connection error
\* popup, the query error, or an error or timeout line in place of the database
\* list.
ErrorMessageHeld(u) ==
    \/ u.connection_error_message # None
    \/ u.sql_query_error # None
    \/ \E i \in 1..Len(u.databases) :
            u.databases[i] \in { << "Error fetching databases: {}" >>,
                                << "Timeout while fetching databases" >> }

\* C19: a database error raised in an input handler or a render routine does not
\* end the event loop: after the failing operation the session is on a valid
\* screen, goes on reading key events, and holds the error as a message to display.
C19_ErrorsBecomeMessages ==
    [][(db_op'.op # "none" /\ ~db_result'.ok) =>
          /\ pc' \in {"render", "read"}
          /\ ui'.current_screen \in Screens
          /\ ErrorMessageHeld(ui')]_vars

\* C20: describe_table(name) of a client gives a TableSchema whose table_name is the
\* requested name and whose columns are in the order the backend returned them,
\* and the wrapper's describe_table gives the column names in that same order.
C20_DescribeKeepsColumnOrder ==
    [][\A kind \in Kinds, table_name \in TableNames, resp \in DbListResps :
         (DbDescribeTable(kind, table_name, resp) /\ connections # <<>> /\ resp.ok) =>
            LET schema == client_describe_table(Head(connections), table_name, resp)
            IN  /\ schema.ok
                /\ schema.val.table_name = table_name
                /\ Len(schema.val.columns) = Len(resp.names)
                /\ \A i \in 1..Len(resp.names) :
                        schema.val.columns[i].name = resp.names[i]
                /\ db_calls' = << Call("describe_table", table_name) >>
                /\ db_result' = Ok(resp.names)]_vars

\* describe_table("users") has answered [id, name].
C20_Witness ==
    /\ db_op.op = "describe_table"
    /\ db_op.arg = << "u", "s", "e", "r", "s" >>
    /\ db_result = Ok(<< << "i", "d" >>, << "n", "a", "m", "e" >> >>)


\* C21: from_type_name is case-insensitive for every backend: a type name maps to
\* the category of its upper-case form, and a name whose upper-case form matches
\* no known type name maps to Unknown.
TypeArms(backend) ==
    IF backend = "postgres" THEN PostgresTypeNames ELSE MySqlTypeNames

C21_CaseInsensitive ==
    db_op.op = "from_type_name" =>
        LET upper == to_uppercase(db_op.arg)
            arms == TypeArms(db_op.wrapper)
        IN  /\ db_result = from_type_name(db_op.wrapper, upper)
            /\ (\A k \in 1..Len(arms) : arms[k][1] # upper) => db_result = ColumnType("Unknown")

\* C22: decoding is total and fails to Null: to_json_value returns a JSON value
\* for every category and cell, and a cell the category's Rust type cannot be
\* decoded from, or a float that is not finite, yields Null.
C22_DecodingFailsToNull ==
    db_op.op = "to_json_value" =>
        LET column_type == db_op.arg[2]
            cell == db_op.arg[3]
            T == IF db_op.wrapper = "postgres" THEN postgres_target(column_type)
                 ELSE mysql_target(column_type)
        IN  /\ db_result.t \in {"null", "str", "num", "float", "bool"}
            /\ T \notin cell.types => db_result = JNull
            /\ (T = "f64" /\ T \in cell.types /\ ~cell.val.finite) => db_result = JNull

\* C23: query_with_column_order returns parallel arrays for every backend: the
\* header is the column names in backend order, every row has as many values as
\* the header has names, and value i of a row is the text of its column i.
C23_HeaderAndRowsParallel ==
    (db_op.op = "query_with_column_order" /\ db_result.ok /\ db_op.arg[2].rows # <<>>) =>
        LET rows == db_op.arg[2].rows
            header == db_result.val[1]
            data_rows == db_result.val[2]
        IN  /\ header = [c \in 1..Len(rows[1]) |-> rows[1][c][1]]
            /\ Len(data_rows) = Len(rows)
            /\ \A i \in 1..Len(data_rows) :
                    /\ Len(data_rows[i]) = Len(header)
                    /\ \A c \in 1..Len(data_rows[i]) :
                            /\ c <= Len(rows[i])
                            /\ data_rows[i][c] = value_to_cell_string(rows[i][c][2])

\* C24: the selection indexes are always in range: selected_table < |tables|
\* whenever tables is non-empty and selected_database < |databases| whenever
\* databases is non-empty, also right after a refresh has replaced a list.
C24_SelectionInRange ==
    /\ ui.tables # <<>> => ui.selected_table < Len(ui.tables)
    /\ ui.databases # <<>> => ui.selected_database < Len(ui.databases)

\* C25: at most one database operation is outstanding at any time; the call
\* that is outstanding holds the registry lock (none waits for it), and the lock
\* is free again whenever the loop is not inside a call: when a handler or a
\* render routine has returned, also when the fetch timed out, and between the
\* calls that one handler makes one after the other.
C25_OneOperationHoldsTheLock ==
    /\ Len(inflight) <= 1
    /\ \A i \in 1..Len(inflight) : inflight[i].holds
    /\ pc # "await" => inflight = <<>>

\* An Execute has run its statement and then update_tables on the registered
\* client, the fetch of its closing render has timed out, the handler has
\* returned and nothing holds the lock.
C25_Witness ==
    /\ pc = "render"
    /\ db_op.op = "fetch_tables"
    /\ db_op.had_client
    /\ db_result = Err(Elapsed)
    /\ Len(db_calls) = 3
    /\ db_calls[1].op = "execute"
    /\ db_calls[2] = Call("list_tables", <<>>)
    /\ db_calls[3] = Call("list_tables", <<>>)
    /\ inflight = <<>>

\* C27: when a screen-entry fetch never completes, the render pass still ends
\* once the timeout fires and the loop goes on to wait for the next key event:
\* a fetch begun by the render at the top of the loop leads to event::read,
\* whether or not the fetch ever returns.
C27_RenderEndsOnTimeout ==
    (pc = "await" /\ inflight # <<>> /\ awaited(inflight).resume = "read")
    ~> (pc = "read")

\* A fetch_databases begun at the top of the loop was cut off by the timeout with
\* a client registered, and the loop waits for a key.
C27_Witness ==
    /\ pc = "read"
    /\ db_op.op = "fetch_databases"
    /\ db_op.had_client
    /\ db_result = Err(Elapsed)

\* A list that holds the lines the MySQL render writes on a failed fetch.
IsErrorPlaceholder(list) ==
    /\ list # <<>>
    /\ list[1] \in { << "Timeout while fetching databases" >>,
                      << "Error fetching databases: {}" >> }

\* C26: the screen-entry refresh is gated by its dirty flag.  The render at the
\* top of the loop issues a list fetch exactly when the screen's flag is set; a
\* successful fetch stores the list and clears the flag; an error or a timeout
\* leaves the flag set and the list empty or an error placeholder.
C26_RefreshGatedByDirtyFlag ==
    [][(pc = "render" /\ pc' = "read") =>
        /\ ui.current_screen = "DatabaseSelection" =>
              /\ (db_op'.op = "fetch_databases") <=> ui.needs_db_refresh
              /\ db_op'.op # "fetch_databases" => ui' = ui
              /\ db_op'.op = "fetch_databases" =>
                    \/ /\ db_result'.ok
                       /\ ui'.databases = db_result'.val
                       /\ ~ui'.needs_db_refresh
                    \/ /\ ui'.needs_db_refresh
                       /\ ui'.databases = <<>> \/ IsErrorPlaceholder(ui'.databases)
              /\ (db_op'.op = "fetch_databases" /\ ~db_result'.ok) =>
                    ui'.needs_db_refresh
        /\ ui.current_screen = "TableView" =>
              /\ (db_op'.op = "fetch_tables") <=> ui.needs_tables_refresh
              /\ db_op'.op # "fetch_tables" => ui' = ui
              /\ db_op'.op = "fetch_tables" =>
                    \/ /\ db_result'.ok
                       /\ ui'.tables = db_result'.val
                       /\ ~ui'.needs_tables_refresh
                    \/ /\ ui'.needs_tables_refresh
                       /\ ui'.tables = <<>>
              /\ (db_op'.op = "fetch_tables" /\ ~db_result'.ok) =>
                    ui'.needs_tables_refresh
        /\ ui.current_screen \notin {"DatabaseSelection", "TableView"} =>
              db_op'.op = "none" /\ ui' = ui
    ]_vars

\* A table fetch has failed at the top of the loop on a registered client: the
\* flag is still set and the list is empty.
C26_Witness ==
    /\ pc = "read"
    /\ ui.current_screen = "TableView"
    /\ db_op.op = "fetch_tables"
    /\ db_op.had_client
    /\ ~db_result.ok
    /\ ui.needs_tables_refresh
    /\ ui.tables = <<>>

\* C28: in TableView with the tables list focused, Enter on an in-range table
\* toggles its expansion.  On the expanded index it collapses without a
\* database call; otherwise describe_table is issued for the table's name and,
\* on success, a TableSchema with the returned column names in order is cached
\* under that name and expanded_table becomes the index; on failure
\* expanded_table and the schema cache are unchanged.
C28_EnterTogglesExpansion ==
    [][\A resp \in DbListResps :
        (/\ ui.current_focus = "TablesList"
         /\ ui.selected_table < Len(ui.tables)
         /\ TableEnter(resp)) =>
        LET name == ui.tables[ui.selected_table + 1]
        IN  IF ui.expanded_table = Some(ui.selected_table)
            THEN /\ ui'.expanded_table = None
                 /\ db_op'.op = "none"
                 /\ db_calls' = <<>>
                 /\ ui'.table_schemas = ui.table_schemas
            ELSE /\ db_op'.op = "describe_table"
                 /\ db_op'.arg = name
                 /\ db_result'.ok =>
                       /\ ui'.expanded_table = Some(ui.selected_table)
                       /\ \A e \in ui'.table_schemas :
                             e[1] = name =>
                               /\ e[2].table_name = name
                               /\ [i \in 1..Len(e[2].columns) |->
                                     e[2].columns[i].name] = db_result'.val
                       /\ Cardinality({e \in ui'.table_schemas : e[1] = name}) = 1
                       /\ {e \in ui'.table_schemas : e[1] # name}
                            = {e \in ui.table_schemas : e[1] # name}
                 /\ ~db_result'.ok =>
                       /\ ui'.expanded_table = ui.expanded_table
                       /\ ui'.table_schemas = ui.table_schemas
    ]_vars

\* Enter has expanded a table: its schema, with columns, is in the cache.
C28_Witness ==
    /\ pc = "render"
    /\ db_op.op = "describe_table"
    /\ db_op.had_client
    /\ db_result.ok
    /\ db_result.val # <<>>
    /\ ui.expanded_table = Some(ui.selected_table)
    /\ \E e \in ui.table_schemas :
          /\ e[1] = ui.tables[ui.selected_table + 1]
          /\ Len(e[2].columns) = Len(db_result.val)

\* The step in which Execute ran a statement.
ExecuteStep == pc = "read" /\ pc' = "render" /\ db_op'.op = "execute_sql_query"

\* The offsets of the result view are back at the first row and column.
NavigationReset(u) ==
    /\ u.selected_result_row = 0
    /\ u.sql_result_scroll = 0
    /\ u.sql_result_horizontal_scroll = 0

\* C29 as stated: after a successful Execute the three offsets are 0,
\* sql_query_error is cleared and needs_tables_refresh is set.
C29_FlagSetAfterExecute ==
    [][(ExecuteStep /\ db_result'.ok) =>
        /\ NavigationReset(ui')
        /\ ui'.sql_query_error = None
        /\ ui'.needs_tables_refresh
    ]_vars

\* C29, amended: after a successful Execute the three offsets are 0,
\* sql_query_error is cleared, and the table list has been fetched again by the
\* render that closes the handler (after the discarded update_tables): the flag
\* is clear again when that fetch succeeded and is still set, with an empty
\* list, when it failed or timed out.
C29_RefetchedAfterExecute ==
    [][(ExecuteStep /\ db_result'.ok) =>
        /\ NavigationReset(ui')
        /\ ui'.sql_query_error = None
        /\ Len(db_calls') = 3
        /\ db_calls'[2] = Call("list_tables", <<>>)
        /\ db_calls'[3] = Call("list_tables", <<>>)
        /\ \/ /\ ~ui'.needs_tables_refresh
              /\ ui'.last_tables_update = Some(Now)
           \/ /\ ui'.needs_tables_refresh
              /\ ui'.tables = <<>>
    ]_vars

\* A statement has run and the list fetched behind it has replaced the tables.
C29_Witness ==
    /\ pc = "render"
    /\ db_op.op = "execute_sql_query"
    /\ db_result.ok
    /\ Len(db_calls) = 3
    /\ ~ui.needs_tables_refresh
    /\ ui.tables = << << "t" >> >>
    /\ NavigationReset(ui)

\* C30: after a failed Execute sql_query_error holds the error message, the
\* result buffer is empty and the three offsets are 0; the screen, the focus and
\* the editor buffer are unchanged.
C30_FailedExecute ==
    [][(ExecuteStep /\ ~db_result'.ok) =>
        /\ ui'.sql_query_error = Some(<< "SQL Error: ", db_result'.err >>)
        /\ ui'.sql_query_result = <<>>
        /\ NavigationReset(ui')
        /\ ui'.current_screen = ui.current_screen
        /\ ui'.current_focus = ui.current_focus
        /\ ui'.sql_editor_content = ui.sql_editor_content
    ]_vars

\* A statement has failed on a registered client after an earlier one had
\* filled the buffer: the message is there and the buffer is empty.
C30_Witness ==
    /\ pc = "render"
    /\ db_op.op = "execute_sql_query"
    /\ db_op.had_client
    /\ ~db_result.ok
    /\ ui.sql_query_error # None
    /\ ui.sql_query_result = <<>>
    /\ ui.sql_query_success_message # None

\* The lines handed to the ingestion are a header and data lines with one value
\* for each header.
WellFormedLines(lines) ==
    /\ lines # <<>>
    /\ parse_headers(lines[1]) # <<>>
    /\ \A i \in 2..Len(lines) :
          Len(split(lines[i], "\t")) = Len(parse_headers(lines[1]))

\* C31: when Execute ingests a header and N well-formed data lines, min(N, 1000)
\* rows are retained and the success message is the truncation notice exactly
\* when N > 1000.
C31_CapAndNotice ==
    [][(ExecuteStep /\ db_result'.ok /\ WellFormedLines(db_result'.val[1])) =>
        LET N == Len(db_result'.val[1]) - 1
            notice == Some("Results limited to 1000 rows for performance")
        IN  /\ Len(ui'.sql_query_result) = IF N > 1000 THEN 1000 ELSE N
            /\ (ui'.sql_query_success_message = notice) <=> (N > 1000)
    ]_vars

\* An answer of 1001 data lines has been cut to 1000 rows and the notice is shown.
C31_Witness ==
    /\ pc = "render"
    /\ db_op.op = "execute_sql_query"
    /\ db_result.ok
    /\ Len(db_result.val[1]) = 1002
    /\ Len(ui.sql_query_result) = 1000
    /\ ui.sql_query_success_message
         = Some("Results limited to 1000 rows for performance")

\* C32: on both backends a successful SELECT whose answer has N <= 1000 rows
\* leaves exactly N rows in the result buffer: the first line handed to the
\* ingestion is the header built from the column names, and no data row is
\* consumed as the header.
C32_SelectKeepsEveryRow ==
    [][\A resp \in ExecResps, env \in OkListEnvs :
        (/\ EditorExecute(resp, env, MaxDebugLog)
         /\ db_calls' # <<>>
         /\ db_calls'[1].op = "query"
         /\ db_result'.ok
         /\ resp.ok
         /\ Len(resp.rows) <= max_rows) =>
        /\ Len(ui'.sql_query_result) = Len(resp.rows)
        /\ resp.rows # <<>> =>
              LET header == split(db_result'.val[1][1], "\t")
                  names == map_keys(resp.rows[1])
              IN  {header[i] : i \in 1..Len(header)}
                    = {names[i] : i \in 1..Len(names)}
    ]_vars

\* The fields focused after 0, 1, 2, 3 and 4 presses of `code` on the form.
FieldsVisited(u, code) ==
    LET press(v) == handle_input_event(v, Key(code))
        u1 == press(u)
        u2 == press(u1)
        u3 == press(u2)
        u4 == press(u3)
    IN  << u.connection_input.current_field, u1.connection_input.current_field,
           u2.connection_input.current_field, u3.connection_input.current_field,
           u4.connection_input.current_field >>

\* C33: on the connection form, repeated Down, and repeated Up, visits the four
\* fields Username, Password, Hostname, Port and returns to the field it
\* started from.
C33_UpDownCycle ==
    (ui.current_screen = "ConnectionInput" /\ ui.connection_error_message = None) =>
        \A code \in {"Down", "Up"} :
            LET visited == FieldsVisited(ui, code)
            IN  /\ {visited[i] : i \in 1..4}
                     = {"Username", "Password", "Hostname", "Port"}
                /\ visited[5] = visited[1]

\* C34: whenever the result buffer holds rows, selected_result_row is within
\* [0, total_rows - 1] and sql_result_scroll <= selected_result_row, whatever
\* navigation, Execute and debug-view (F12) operations came before.
C34_SelectedRowInRange ==
    ui.sql_query_result # <<>> =>
        /\ ui.selected_result_row \in 0..(Len(ui.sql_query_result) - 1)
        /\ ui.sql_result_scroll <= ui.selected_result_row

\* The rows of an answer longer than the window have been walked to the last
\* one, and the window has followed.
C34_Witness ==
    /\ ui.current_focus = "QueryResult"
    /\ Len(ui.sql_query_result) > RESULT_VISIBLE_HEIGHT
    /\ ui.selected_result_row = Len(ui.sql_query_result) - 1
    /\ ui.sql_result_scroll = ui.selected_result_row - (RESULT_VISIBLE_HEIGHT - 1)

\* C35: the debug buffer never holds more than 100 messages, and a message
\* added to a full buffer evicts the oldest one while the others keep their
\* order behind it.
C35_DebugRingBuffer ==
    /\ [](Len(ui.debug_info) <= 100)
    /\ [][(/\ TableKey(Key("Right"), DEBUG_INFO_CAP)
           /\ ui.current_focus = "QueryResult"
           /\ ui.sql_query_result # <<>>
           /\ Len(ui.debug_info) = 100) =>
            /\ Len(ui'.debug_info) = 100
            /\ SubSeq(ui'.debug_info, 1, 99) = Tail(ui.debug_info)
            /\ ui'.debug_info[100] = << "Already at rightmost position" >>
         ]_vars

\* The buffer is full and has turned over: the messages of the execution that
\* opened the log have all been evicted.
C35_Witness ==
    /\ Len(ui.debug_info) = 100
    /\ \A i \in 1..100 : ui.debug_info[i] = << "Already at rightmost position" >>

\* C36: a failed connect_to_default_db or connect_to_selected_db leaves the
\* registry slot empty, whatever client it held before; while the slot is empty
\* no operation reaches a client, and only a successful connect fills it again.
C36_FailedConnectEmptiesSlot ==
    /\ [][(db_op'.op \in ConnectOps /\ pc = "read" /\ ~db_result'.ok) =>
            connections' = <<>>]_vars
    /\ [][(connections = <<>> /\ db_op'.op \notin ConnectOps) =>
            /\ connections' = <<>>
            /\ \A i \in 1..Len(db_calls') : db_calls'[i].op = "connect"]_vars
    /\ [][(connections = <<>> /\ connections' # <<>>) =>
            (db_op'.op \in ConnectOps /\ db_result'.ok)]_vars

\* A connect has failed in a session whose slot held a client: the slot is empty.
C36_Witness ==
    /\ db_op.op = "connect_to_selected_db"
    /\ db_op.had_client
    /\ ~db_result.ok
    /\ connections = <<>>
    /\ ui.current_screen = "DatabaseSelection"

\* C37: whenever the current screen is TableView the registry holds exactly one
\* client.
C37_TableViewHasClient ==
    ui.current_screen = "TableView" => Len(connections) = 1

\* The table view has been entered and its list fetched from the one client.
C37_Witness ==
    /\ ui.current_screen = "TableView"
    /\ pc = "read"
    /\ db_op.op = "fetch_tables"
    /\ db_op.had_client
    /\ db_calls # <<>>
    /\ Len(connections) = 1

\* C38: once the session has reached DatabaseSelection the screen stays in
\* {DatabaseSelection, TableView} and selected_db_type keeps its value, 0 or 1:
\* nothing leads back to ConnectionInput, DbTypeSelection or MessagePopup.
C38_NoWayBack ==
    [][ui.current_screen \in {"DatabaseSelection", "TableView"} =>
        /\ ui'.current_screen \in {"DatabaseSelection", "TableView"}
        /\ ui.selected_db_type \in {0, 1}
        /\ ui'.selected_db_type = ui.selected_db_type
    ]_vars

\* The session has gone from the database list to the table view and back.
C38_Witness ==
    /\ ui.current_screen = "DatabaseSelection"
    /\ pc = "read"
    /\ Len(connections) = 1
    /\ ui.tables # <<>>
    /\ ui.last_tables_update # None

\* C39: editor text edits act on the end of the buffer whatever the cursor
\* position: a character key or Enter appends to sql_editor_content, Backspace
\* removes its last character.
C39_EditsActOnTheEnd ==
    [][\A key \in EditKeys(EditTexts), env \in OkListEnvs :
        EditorKey(key, EditTexts, env) =>
            ui'.sql_editor_content =
                IF key.code = "Char" THEN Append(ui.sql_editor_content, key.c)
                ELSE IF key.code = "Enter" THEN Append(ui.sql_editor_content, "\n")
                ELSE IF ui.sql_editor_content = <<>> THEN <<>>
                ELSE SubSeq(ui.sql_editor_content, 1, Len(ui.sql_editor_content) - 1)
    ]_vars

\* The buffer holds two lines and the cursor stands at the start of the first
\* one, away from the end where the next edit will act.
C39_Witness ==
    /\ ui.current_screen = "TableView"
    /\ ui.current_focus = "SqlEditor"
    /\ pc = "render"
    /\ ui.sql_editor_content = << "a", "\n", "b" >>
    /\ ui.sql_editor_cursor_x = 0
    /\ ui.sql_editor_cursor_y = 0

\* C40: the session's table list is written only by the dirty-flag refresh of the
\* TableView render (the flag was set before the step, or a successful Execute
\* set it ahead of the render that closes its handler); the update_tables call
\* made after Execute changes neither tables nor selected_table.
C40_TablesWrittenOnlyByRefresh ==
    /\ [][ui'.tables # ui.tables =>
            /\ ui.current_screen = "TableView"
            /\ ui'.current_screen = "TableView"
            /\ \/ ui.needs_tables_refresh
               \/ ExecuteStep /\ db_result'.ok
         ]_vars
    /\ [][ExecuteStep =>
            /\ ui'.selected_table = ui.selected_table
            /\ (~db_result'.ok /\ ~ui.needs_tables_refresh) =>
                    ui'.tables = ui.tables
         ]_vars

\* A statement has failed with the refresh flag clear: update_tables has asked
\* the client for its tables, and the session's list is what it was.
C40_Witness ==
    /\ pc = "render"
    /\ db_op.op = "execute_sql_query"
    /\ ~db_result.ok
    /\ Len(db_calls) = 2
    /\ db_calls[2] = Call("list_tables", <<>>)
    /\ ~ui.needs_tables_refresh
    /\ ui.tables = << << "a", "p", "p" >> >>

====
